---- MODULE Spec2Model ----
(***************************************************************************)
(* A state-machine model of dynetworkx: the interval tree, the four        *)
(* temporal graph classes (IntervalGraph, IntervalDiGraph, ImpulseGraph,    *)
(* ImpulseDiGraph) and the temporal motif counter.                          *)
(*                                                                         *)
(* Python values are modelled as follows.  None is the integer NoneV, which *)
(* lies outside the node and time domains.  float("inf") and float("-inf") *)
(* are PosInf and NegInf.  A dict is a function; a dict of dicts is a       *)
(* function of functions.  An attribute dict passed as **attr is an object  *)
(* on the heap: the adjacency maps hold its identifier, heap holds its      *)
(* content.  An operation that can raise returns a record whose err field   *)
(* names the exception ("none" when it returns normally) together with the *)
(* state it leaves behind.  A query assigns no field: it is an operator on *)
(* the object and its arguments.                                           *)
(***************************************************************************)
EXTENDS Integers, Sequences, FiniteSets, TLC

\* ------------------------------------------------------------------ bounds
MaxNode == 2
MaxTime == 2
MaxAdds == 2

NoneV == -1
PosInf == 99
NegInf == -99

Nodes == 0..MaxNode
Times == 0..MaxTime
NIL == <<>>

\* The attribute dicts a caller passes as **attr.  The two impulse dicts tell
\* replacing from merging and a later value from an earlier one.
EmptyDict == << >>
IntervalAttrDicts == {[w |-> 1]}
ImpulseAttrDicts == {[w |-> 1], [w |-> 2, x |-> 1]}

VARIABLES cls, node_, adj, pred, succ, heap, tree, snapshots, call

vars == <<cls, node_, adj, pred, succ, heap, tree, snapshots, call>>

\* ------------------------------------------------------------ Python basics
\* A local name for a value computed once: F applied to the value of e.
Let1(e, F(_)) == CHOOSE r \in {F(x) : x \in {e}} : TRUE

\* `not x` for x an int or None
Falsy(x) == x = NoneV \/ x = 0

Max2(a, b) == IF a >= b THEN a ELSE b
Min2(a, b) == IF a <= b THEN a ELSE b

\* dict.update: d1.update(d2)
DictUpdate(d1, d2) ==
    [k \in (DOMAIN d1) \cup (DOMAIN d2) |-> IF k \in DOMAIN d2 THEN d2[k] ELSE d1[k]]

\* dict.pop(k, None) / del restricted to the keys kept
DictDrop(d, k) == [x \in (DOMAIN d) \ {k} |-> d[x]]

\* d[k] = val
DictPut(d, k, val) == [x \in (DOMAIN d) \cup {k} |-> IF x = k THEN val ELSE d[x]]

RECURSIVE SeqRemoveFirst(_, _)
\* list.remove(x): drops the first occurrence
SeqRemoveFirst(s, x) ==
    IF s = << >> THEN << >>
    ELSE IF Head(s) = x THEN Tail(s)
    ELSE <<Head(s)>> \o SeqRemoveFirst(Tail(s), x)

SeqRange(s) == {s[i] : i \in 1..Len(s)}

RECURSIVE FlattenSeq(_)
FlattenSeq(ss) == IF ss = << >> THEN << >> ELSE Head(ss) \o FlattenSeq(Tail(ss))

\* ------------------------------------------------------------ IntervalTree
\* A Node object is identified by its key <<low, high>>: IntervalTree.nodes
\* holds one Node per key and never deletes an entry.  T is the map key -> Node.
NewNode(low, high) ==
    [low |-> low, high |-> high, max |-> high, edges |-> << >>,
     left |-> NIL, right |-> NIL, height |-> 0]

EmptyTree == [nodes |-> << >>, root |-> NIL, number_of_edges |-> 0,
              begin |-> PosInf, end |-> NegInf]

inInterval(n, begin, end) == (n.low < end /\ n.high > begin) \/ n.low = begin

\* An updateMax that would look at the right child alone.
updateMax_right_only(T, n) ==
    LET r == T[n].right
        m == IF r # NIL THEN Max2(T[n].high, T[r].max) ELSE T[n].high
    IN [T EXCEPT ![n].max = m]

\* IntervalTree.updateMax(node)
updateMax(T, n) ==
    LET l == T[n].left
        r == T[n].right
        m == IF r # NIL /\ l # NIL THEN Max2(T[n].high, Max2(T[r].max, T[l].max))
             ELSE IF l # NIL THEN Max2(T[n].high, T[l].max)
             ELSE IF r # NIL THEN Max2(T[n].high, T[r].max)
             ELSE T[n].high
    IN [T EXCEPT ![n].max = m]

getHeight(T, n) == IF n = NIL THEN 0 ELSE T[n].height

getBalance(T, n) ==
    IF n = NIL THEN 0 ELSE getHeight(T, T[n].left) - getHeight(T, T[n].right)

\* x.height = 1 + max(self.getHeight(x.left), self.getHeight(x.right))
SetHeight(T, x) ==
    [T EXCEPT ![x].height = 1 + Max2(getHeight(T, T[x].left), getHeight(T, T[x].right))]

leftRotate(T, x) ==
    LET y == T[x].right
    IN Let1([T EXCEPT ![y].left = x, ![x].right = T[y].left], LAMBDA T1 :
       Let1(SetHeight(T1, x), LAMBDA T2 :
       Let1(SetHeight(T2, y), LAMBDA T3 :
       Let1(updateMax(T3, x), LAMBDA T4 :
          [t |-> updateMax(T4, y), r |-> y]))))

rightRotate(T, x) ==
    LET y == T[x].left
    IN Let1([T EXCEPT ![y].right = x, ![x].left = T[y].right], LAMBDA T1 :
       Let1(SetHeight(T1, x), LAMBDA T2 :
       Let1(SetHeight(T2, y), LAMBDA T3 :
       Let1(updateMax(T3, x), LAMBDA T4 :
          [t |-> updateMax(T4, y), r |-> y]))))

\* A descent that would compare the low ends alone.
GoesLeft_low_only(n, r) == n[1] < r[1]

\* node.low < root.low or (node.low == root.low and node.high < root.high)
GoesLeft(n, r) == n[1] < r[1] \/ (n[1] = r[1] /\ n[2] < r[2])

\* The part of insert and discard that follows the recursive call: height,
\* balance, rotations, updateMax.  T already holds the new child pointer.
Rebalance(T, root, n) ==
    Let1(SetHeight(T, root), LAMBDA T1 :
    LET bal == getBalance(T1, root)
    IN IF bal > 1
       THEN IF T1[T1[root].left].right = n
            THEN Let1(leftRotate(T1, T1[root].left), LAMBDA rot :
                 Let1([rot.t EXCEPT ![root].left = rot.r], LAMBDA T2 :
                    rightRotate(T2, root)))
            ELSE rightRotate(T1, root)
       ELSE IF bal < -1
       THEN IF T1[T1[root].right].left = n
            THEN Let1(rightRotate(T1, T1[root].right), LAMBDA rot :
                 Let1([rot.t EXCEPT ![root].right = rot.r], LAMBDA T2 :
                    leftRotate(T2, root)))
            ELSE leftRotate(T1, root)
       ELSE [t |-> updateMax(T1, root), r |-> root])

RECURSIVE insert(_, _, _)
insert(T, root, n) ==
    IF root = NIL THEN [t |-> T, r |-> n]
    ELSE IF GoesLeft(n, root)
         THEN Let1(insert(T, T[root].left, n), LAMBDA sub :
              Let1([sub.t EXCEPT ![root].left = sub.r], LAMBDA T1 :
                 Rebalance(T1, root, n)))
         ELSE Let1(insert(T, T[root].right, n), LAMBDA sub :
              Let1([sub.t EXCEPT ![root].right = sub.r], LAMBDA T1 :
                 Rebalance(T1, root, n)))

RECURSIVE discard(_, _, _)
\* discard(None, node) reads root.low of None: AttributeError, raised on the
\* way down, before any pointer is rewritten.
discard(T, root, n) ==
    IF root = NIL THEN [t |-> T, r |-> NIL, err |-> "AttributeError"]
    ELSE IF root = n
    THEN [t |-> T,
          r |-> IF T[root].left # NIL THEN T[root].left
                ELSE IF T[root].right # NIL THEN T[root].right ELSE NIL,
          err |-> "none"]
    ELSE IF GoesLeft(n, root)
         THEN Let1(discard(T, T[root].left, n), LAMBDA sub :
              IF sub.err # "none" THEN [t |-> T, r |-> root, err |-> sub.err]
              ELSE Let1([sub.t EXCEPT ![root].left = sub.r], LAMBDA T1 :
                   Let1(Rebalance(T1, root, n), LAMBDA rb :
                      [t |-> rb.t, r |-> rb.r, err |-> "none"])))
         ELSE Let1(discard(T, T[root].right, n), LAMBDA sub :
              IF sub.err # "none" THEN [t |-> T, r |-> root, err |-> sub.err]
              ELSE Let1([sub.t EXCEPT ![root].right = sub.r], LAMBDA T1 :
                   Let1(Rebalance(T1, root, n), LAMBDA rb :
                      [t |-> rb.t, r |-> rb.r, err |-> "none"])))

RECURSIVE query(_, _, _, _)
\* The Node keys yielded by IntervalTree.query, in yield order.
query(T, n, begin, end) ==
    LET l == T[n].left
        r == T[n].right
    IN (IF l # NIL /\ T[l].max >= begin THEN query(T, l, begin, end) ELSE << >>)
       \o (IF inInterval(T[n], begin, end) THEN <<n>> ELSE << >>)
       \o (IF r # NIL /\ T[n].low <= end /\ T[r].max >= begin
           THEN query(T, r, begin, end) ELSE << >>)

\* IntervalTree.add(edge), edge = <<u, v, begin, end>>
IntervalTree_add(tr, edge) ==
    LET key == <<edge[3], edge[4]>>
    IN IF key \in DOMAIN tr.nodes
       THEN [tr EXCEPT !.nodes[key].edges = Append(@, edge),
                       !.number_of_edges = @ + 1]
       ELSE Let1(DictPut(tr.nodes, key,
                         [NewNode(edge[3], edge[4]) EXCEPT !.edges = <<edge>>]),
                 LAMBDA T0 :
            Let1(insert(T0, tr.root, key), LAMBDA ins :
               [nodes |-> ins.t, root |-> ins.r,
                number_of_edges |-> tr.number_of_edges + 1,
                begin |-> Min2(tr.begin, edge[3]),
                end |-> Max2(tr.end, edge[4])]))

RECURSIVE LeftmostLow(_, _, _)
\* while traversal_node.left != None: self.begin = traversal_node.left.low
LeftmostLow(T, n, cur) ==
    IF T[n].left = NIL THEN cur ELSE LeftmostLow(T, T[n].left, T[T[n].left].low)

RECURSIVE RightmostHigh(_, _, _)
RightmostHigh(T, n, cur) ==
    IF T[n].right = NIL THEN cur ELSE RightmostHigh(T, T[n].right, T[T[n].right].high)

\* IntervalTree.remove(edge).  The value discard returns is dropped, so
\* self.root keeps pointing at the old root.
IntervalTree_remove(tr, edge) ==
    LET key == <<edge[3], edge[4]>>
    IN IF key \notin DOMAIN tr.nodes THEN [tree |-> tr, err |-> "KeyError"]
       ELSE IF edge \notin SeqRange(tr.nodes[key].edges) THEN [tree |-> tr, err |-> "none"]
       ELSE Let1([tr.nodes EXCEPT ![key].edges = SeqRemoveFirst(@, edge)], LAMBDA T1 :
            Let1([tr EXCEPT !.nodes = T1, !.number_of_edges = @ - 1], LAMBDA tr1 :
            Let1(IF T1[key].edges = << >> THEN discard(T1, tr.root, key)
                 ELSE [t |-> T1, r |-> tr.root, err |-> "none"], LAMBDA dis :
               IF dis.err # "none" THEN [tree |-> tr1, err |-> dis.err]
               ELSE LET T2 == dis.t
                        b2 == IF tr.begin = edge[3]
                              THEN LeftmostLow(T2, tr.root, tr.begin) ELSE tr.begin
                        e2 == IF tr.end = edge[4]
                              THEN RightmostHigh(T2, tr.root, tr.end) ELSE tr.end
                    IN [tree |-> [tr1 EXCEPT !.nodes = T2, !.begin = b2, !.end = e2],
                        err |-> "none"])))

\* IntervalTree.__getitem__ -> slice(item.start, item.stop, self.root):
\* the edges yielded, in order.
IntervalTree_slice(tr, interval_start, interval_end) ==
    IF tr.root = NIL THEN << >>
    ELSE LET b == IF Falsy(interval_start) THEN tr.begin ELSE interval_start
             e == IF Falsy(interval_end) THEN tr.end ELSE interval_end
         IN Let1(query(tr.nodes, tr.root, b, e), LAMBDA ns :
               FlattenSeq([i \in 1..Len(ns) |-> tr.nodes[ns[i]].edges]))

\* ------------------------------------------------ insertion-ordered dicts
\* The innermost edge dicts of the interval graphs are iterated while edges
\* are removed, so their insertion order is kept: a dict is a sequence of
\* <<key, value>> pairs.
OKeys(d) == [i \in 1..Len(d) |-> d[i][1]]
OHas(d, k) == \E i \in 1..Len(d) : d[i][1] = k
OGet(d, k) == d[CHOOSE i \in 1..Len(d) : d[i][1] = k][2]
OPut(d, k, val) ==
    IF OHas(d, k) THEN [i \in 1..Len(d) |-> IF d[i][1] = k THEN <<k, val>> ELSE d[i]]
    ELSE Append(d, <<k, val>>)
OPop(d, k) == SelectSeq(d, LAMBDA p : p[1] # k)

\* dict.setdefault(k, dflt) on a function-modelled dict: the dict afterwards
SetDefault(d, k, dflt) == IF k \in DOMAIN d THEN d ELSE DictPut(d, k, dflt)

\* The state of one graph object: its fields.
Obj == [node |-> node_, adj |-> adj, pred |-> pred, succ |-> succ,
        heap |-> heap, tree |-> tree]

\* ------------------------------------------------------------ IntervalGraph
\* IntervalGraph.__overlaps_or_contains
IntervalGraph_overlaps_or_contains(iv, begin, end) ==
    IF Falsy(begin) /\ Falsy(end) THEN TRUE
    ELSE IF Falsy(begin) THEN iv[3] < end
    ELSE IF Falsy(end) THEN iv[4] > begin
    ELSE (iv[3] < end /\ iv[4] > begin) \/ iv[3] = begin

\* `if begin and end and begin > end: raise NetworkXError`
TruthyReversed(begin, end) == ~Falsy(begin) /\ ~Falsy(end) /\ begin > end

\* IntervalGraph.edges(u, v, begin, end) with data=False: the list returned.
IntervalGraph_edges(G, u, v, begin, end) ==
    IF Falsy(u) /\ Falsy(v)
    THEN IF Falsy(begin) /\ Falsy(end)
         THEN [err |-> "none", ret |-> IntervalTree_slice(G.tree, NoneV, NoneV)]
         ELSE IF TruthyReversed(begin, end)
         THEN [err |-> "NetworkXError", ret |-> << >>]
         ELSE [err |-> "none", ret |-> IntervalTree_slice(G.tree, begin, end)]
    ELSE LET missing == IF ~Falsy(u) /\ ~Falsy(v)
                        THEN u \notin DOMAIN G.adj \/ v \notin DOMAIN G.adj
                        ELSE IF u # NoneV THEN u \notin DOMAIN G.adj
                        ELSE v \notin DOMAIN G.adj
             iedges  == IF ~Falsy(u) /\ ~Falsy(v)
                        THEN SelectSeq(OKeys(G.adj[u]), LAMBDA iv : iv[2] = v)
                        ELSE IF u # NoneV THEN OKeys(G.adj[u])
                        ELSE OKeys(G.adj[v])
         IN IF missing THEN [err |-> "none", ret |-> << >>]
            ELSE IF TruthyReversed(begin, end)
            THEN [err |-> "NetworkXError", ret |-> << >>]
            ELSE [err |-> "none",
                  ret |-> SelectSeq(iedges,
                            LAMBDA iv : IntervalGraph_overlaps_or_contains(iv, begin, end))]

\* IntervalGraph.add_edge(u, v, begin, end, **attr).  The kwargs dict attr is
\* allocated on the heap by the call itself, whatever the call then does.
IntervalGraph_add_edge(G, u, v, begin, end, attr) ==
    Let1([G EXCEPT !.heap = Append(@, attr)], LAMBDA G0 :
    Let1(IntervalGraph_edges(G0, u, v, begin, end), LAMBDA found :
    LET id    == Len(G0.heap)
        iedge == <<u, v, begin, end>>
    IN IF found.err # "none" THEN [g |-> G0, err |-> found.err]
       ELSE IF found.ret # << >>
       THEN \* self._adj[u][iedge] with iedge a list: unhashable
            [g |-> G0, err |-> IF u \in DOMAIN G0.adj THEN "TypeError" ELSE "KeyError"]
       ELSE LET adj1  == SetDefault(SetDefault(G0.adj, u, << >>), v, << >>)
                node1 == SetDefault(SetDefault(G0.node, u, EmptyDict), v, EmptyDict)
                tree1 == IntervalTree_add(G0.tree, iedge)
                adj2  == [adj1 EXCEPT ![u] = OPut(@, iedge, id)]
                adj3  == [adj2 EXCEPT ![v] = OPut(@, iedge, id)]
            IN [g |-> [G0 EXCEPT !.adj = adj3, !.node = node1, !.tree = tree1],
                err |-> "none"]))

\* IntervalGraph.__remove_iedge
IntervalGraph_remove_iedge(G, iedge) ==
    Let1(IntervalTree_remove(G.tree, iedge), LAMBDA rm :
       IF rm.err # "none" THEN [g |-> [G EXCEPT !.tree = rm.tree], err |-> rm.err]
       ELSE LET adj1 == [G.adj EXCEPT ![iedge[1]] = OPop(@, iedge)]
                adj2 == [adj1 EXCEPT ![iedge[2]] = OPop(@, iedge)]
            IN [g |-> [G EXCEPT !.tree = rm.tree, !.adj = adj2], err |-> "none"])

RECURSIVE IntervalGraph_remove_all(_, _)
\* for iv in iedges_to_remove: self.__remove_iedge(iv)
IntervalGraph_remove_all(G, ivs) ==
    IF ivs = << >> THEN [g |-> G, err |-> "none"]
    ELSE Let1(IntervalGraph_remove_iedge(G, Head(ivs)), LAMBDA r :
            IF r.err # "none" THEN r
            ELSE Let1(Tail(ivs), LAMBDA rest : IntervalGraph_remove_all(r.g, rest)))

\* IntervalGraph.remove_edge(u, v, begin, end, overlapping)
IntervalGraph_remove_edge(G, u, v, begin, end, overlapping) ==
    IF ~overlapping
    THEN IF begin = NoneV \/ end = NoneV THEN [g |-> G, err |-> "NetworkXError"]
         ELSE Let1(IntervalGraph_edges(G, u, v, begin, end), LAMBDA found :
                 IF found.err # "none" THEN [g |-> G, err |-> found.err]
                 \* __remove_iedge(list): tree.remove reads edge[2], edge[3] of
                 \* the list and looks the pair of edges up in tree.nodes
                 ELSE IF Len(found.ret) < 4 THEN [g |-> G, err |-> "IndexError"]
                 ELSE [g |-> G, err |-> "KeyError"])
    ELSE IF begin = NoneV /\ end = NoneV /\ u \notin DOMAIN G.adj
    THEN [g |-> G, err |-> "KeyError"]
    ELSE IF TruthyReversed(begin, end) THEN [g |-> G, err |-> "NetworkXError"]
    ELSE IF u \notin DOMAIN G.adj THEN [g |-> G, err |-> "KeyError"]
    ELSE LET touches(iv) == iv[1] = v \/ iv[2] = v
             first  == IF begin = NoneV /\ end = NoneV
                       THEN SelectSeq(OKeys(G.adj[u]), touches) ELSE << >>
             second == SelectSeq(OKeys(G.adj[u]),
                          LAMBDA iv : touches(iv)
                                      /\ IntervalGraph_overlaps_or_contains(iv, begin, end))
         IN Let1(first \o second, LAMBDA ivs : IntervalGraph_remove_all(G, ivs))

\* A set as a list, in the order Python happens to iterate it; the order
\* is not part of any contract and is fixed arbitrarily here.
RECURSIVE SetToSeq(_)
SetToSeq(S) ==
    IF S = {} THEN << >>
    ELSE LET x == CHOOSE y \in S : TRUE IN <<x>> \o SetToSeq(S \ {x})

\* ---------------------------------------------------------- IntervalDiGraph
\* IntervalDiGraph.__overlaps_or_contains
IntervalDiGraph_overlaps_or_contains(iv, begin, end) ==
    IF begin = NoneV /\ end = NoneV THEN TRUE
    ELSE IF begin = NoneV THEN iv[3] < end
    ELSE IF end = NoneV THEN iv[4] > begin
    ELSE (iv[3] < end /\ iv[4] > begin) \/ iv[3] = begin

\* `if begin is not None and end is not None and begin > end`
GivenReversed(begin, end) == begin # NoneV /\ end # NoneV /\ begin > end

\* IntervalDiGraph.__edges_node_first([u], [v], begin, end): one pass of the
\* loop over product([u], [v]).
IntervalDiGraph_edges_node_first(G, u, v, begin, end) ==
    LET skip == IF u = NoneV /\ v = NoneV THEN FALSE
                ELSE IF u # NoneV /\ v # NoneV
                THEN u \notin DOMAIN G.pred \/ v \notin DOMAIN G.pred[u]
                ELSE IF u # NoneV THEN u \notin DOMAIN G.pred
                ELSE v \notin DOMAIN G.succ
        iedges == IF u = NoneV /\ v = NoneV
                  THEN UNION {UNION {SeqRange(OKeys(G.pred[a][b])) : b \in DOMAIN G.pred[a]}
                              : a \in DOMAIN G.pred}
                  ELSE IF u # NoneV /\ v # NoneV THEN SeqRange(OKeys(G.pred[u][v]))
                  ELSE IF u # NoneV
                  THEN UNION {SeqRange(OKeys(G.pred[u][b])) : b \in DOMAIN G.pred[u]}
                  ELSE UNION {SeqRange(OKeys(G.succ[v][a])) : a \in DOMAIN G.succ[v]}
    IN IF skip THEN [err |-> "none", ret |-> << >>]
       ELSE IF begin = NoneV /\ end = NoneV THEN [err |-> "none", ret |-> SetToSeq(iedges)]
       ELSE IF GivenReversed(begin, end) THEN [err |-> "NetworkXError", ret |-> << >>]
       ELSE [err |-> "none",
             ret |-> SetToSeq({iv \in iedges :
                                 IntervalDiGraph_overlaps_or_contains(iv, begin, end)})]

\* IntervalDiGraph.__edges_interval_first
IntervalDiGraph_edges_interval_first(G, begin, end) ==
    IF GivenReversed(begin, end) THEN [err |-> "NetworkXError", ret |-> << >>]
    ELSE [err |-> "none", ret |-> IntervalTree_slice(G.tree, begin, end)]

\* IntervalDiGraph.edges(u, v, begin, end), data=False; _model is None
IntervalDiGraph_edges(G, u, v, begin, end) ==
    IF u = NoneV /\ v = NoneV /\ begin = NoneV /\ end = NoneV
    THEN IntervalDiGraph_edges_node_first(G, u, v, begin, end)
    ELSE IF u = NoneV /\ v = NoneV
    THEN IntervalDiGraph_edges_interval_first(G, begin, end)
    ELSE IntervalDiGraph_edges_node_first(G, u, v, begin, end)

\* IntervalDiGraph.add_edge
IntervalDiGraph_add_edge(G, u, v, begin, end, attr) ==
    Let1([G EXCEPT !.heap = Append(@, attr)], LAMBDA G0 :
    LET id    == Len(G0.heap)
        iedge == <<u, v, begin, end>>
        exists == /\ u \in DOMAIN G0.pred /\ v \in DOMAIN G0.succ
                  /\ v \in DOMAIN G0.pred[u] /\ u \in DOMAIN G0.succ[v]
                  /\ OHas(G0.pred[u][v], iedge) /\ OHas(G0.succ[v][u], iedge)
    IN IF exists
       THEN LET h1 == [G0.heap EXCEPT ![OGet(G0.pred[u][v], iedge)] = DictUpdate(@, attr)]
                h2 == [h1 EXCEPT ![OGet(G0.succ[v][u], iedge)] = DictUpdate(@, attr)]
            IN [g |-> [G0 EXCEPT !.heap = h2], err |-> "none"]
       ELSE LET pred1 == SetDefault(G0.pred, u, << >>)
                pred2 == [pred1 EXCEPT ![u] = SetDefault(@, v, << >>)]
                succ1 == SetDefault(G0.succ, v, << >>)
                succ2 == [succ1 EXCEPT ![v] = SetDefault(@, u, << >>)]
                node1 == SetDefault(SetDefault(G0.node, u, EmptyDict), v, EmptyDict)
                tree1 == IntervalTree_add(G0.tree, iedge)
            IN [g |-> [G0 EXCEPT !.pred = [pred2 EXCEPT ![u][v] = OPut(@, iedge, id)],
                                 !.succ = [succ2 EXCEPT ![v][u] = OPut(@, iedge, id)],
                                 !.node = node1, !.tree = tree1],
                err |-> "none"])

\* IntervalDiGraph.__remove_iedge
IntervalDiGraph_remove_iedge(G, iedge) ==
    Let1(IntervalTree_remove(G.tree, iedge), LAMBDA rm :
       IF rm.err # "none" THEN [g |-> [G EXCEPT !.tree = rm.tree], err |-> rm.err]
       ELSE [g |-> [G EXCEPT !.tree = rm.tree,
                             !.pred[iedge[1]][iedge[2]] = OPop(@, iedge),
                             !.succ[iedge[2]][iedge[1]] = OPop(@, iedge)],
             err |-> "none"])

RECURSIVE IntervalDiGraph_remove_all(_, _)
IntervalDiGraph_remove_all(G, ivs) ==
    IF ivs = << >> THEN [g |-> G, err |-> "none"]
    ELSE Let1(IntervalDiGraph_remove_iedge(G, Head(ivs)), LAMBDA r :
            IF r.err # "none" THEN r
            ELSE Let1(Tail(ivs), LAMBDA rest : IntervalDiGraph_remove_all(r.g, rest)))

\* The "clean up empty dictionaries" tail of the directed remove_edge, shared
\* in shape by IntervalDiGraph and ImpulseDiGraph; Empty tells an empty
\* innermost dict.
DiCleanup(G, u, v, Empty(_)) ==
    Let1(IF Empty(G.pred[u][v]) THEN [G.pred EXCEPT ![u] = DictDrop(@, v)] ELSE G.pred,
         LAMBDA p1 :
    Let1(IF Empty(G.succ[v][u]) THEN [G.succ EXCEPT ![v] = DictDrop(@, u)] ELSE G.succ,
         LAMBDA s1 :
       [G EXCEPT !.pred = IF DOMAIN p1[u] = {} THEN DictDrop(p1, u) ELSE p1,
                 !.succ = IF DOMAIN s1[v] = {} THEN DictDrop(s1, v) ELSE s1]))

IsEmptySeq(d) == d = << >>

\* IntervalDiGraph.remove_edge
IntervalDiGraph_remove_edge(G, u, v, begin, end, overlapping) ==
    IF u \notin DOMAIN G.pred \/ v \notin DOMAIN G.pred[u] THEN [g |-> G, err |-> "none"]
    ELSE IF ~overlapping
    THEN IF begin = NoneV \/ end = NoneV THEN [g |-> G, err |-> "NetworkXError"]
         ELSE Let1(IntervalDiGraph_edges(G, u, v, begin, end), LAMBDA found :
                 IF found.err # "none" THEN [g |-> G, err |-> found.err]
                 ELSE IF Len(found.ret) < 4 THEN [g |-> G, err |-> "IndexError"]
                 ELSE [g |-> G, err |-> "KeyError"])
    ELSE IF ~(begin = NoneV /\ end = NoneV) /\ TruthyReversed(begin, end)
    THEN [g |-> G, err |-> "NetworkXError"]
    ELSE LET ivs == IF begin = NoneV /\ end = NoneV THEN OKeys(G.pred[u][v])
                    ELSE SelectSeq(OKeys(G.pred[u][v]),
                           LAMBDA iv : IntervalDiGraph_overlaps_or_contains(iv, begin, end))
         IN Let1(ivs, LAMBDA todo :
            Let1(IntervalDiGraph_remove_all(G, todo), LAMBDA r :
               IF r.err # "none" THEN r
               ELSE [g |-> DiCleanup(r.g, u, v, IsEmptySeq), err |-> "none"]))

\* ------------------------------------------------------------- ImpulseGraph
\* For the impulse graphs tree is a SortedDict: timestamp -> set of <<u, v>>.
\* SortedDict.irange(minimum, maximum, inclusive): the keys, ascending.
RECURSIVE SortedSeq(_)
SortedSeq(S) ==
    IF S = {} THEN << >>
    ELSE LET m == CHOOSE x \in S : \A y \in S : x <= y IN <<m>> \o SortedSeq(S \ {m})

irange(sd, minimum, maximum, inclusive) ==
    SortedSeq({t \in DOMAIN sd :
                 /\ minimum = NoneV \/ (IF inclusive[1] THEN minimum <= t ELSE minimum < t)
                 /\ maximum = NoneV \/ (IF inclusive[2] THEN t <= maximum ELSE t < maximum)})

\* [(u, v, t) for t in ts for u, v in sd[t]]
BucketEdges(sd, ts) ==
    FlattenSeq([i \in 1..Len(ts) |->
                  SetToSeq({<<e[1], e[2], ts[i]>> : e \in sd[ts[i]]})])

\* ImpulseGraph.__in_interval / ImpulseDiGraph.__in_interval
in_interval(t, begin, end, inclusive) ==
    LET b == IF begin = NoneV THEN NegInf ELSE begin
        e == IF end = NoneV THEN PosInf ELSE end
    IN IF inclusive = <<TRUE, TRUE>> THEN t >= b /\ t <= e
       ELSE IF inclusive = <<TRUE, FALSE>> THEN t >= b /\ t < e
       ELSE IF inclusive = <<FALSE, TRUE>> THEN t > b /\ t <= e
       ELSE t > b /\ t < e

\* ImpulseGraph.__overlaps_or_contains / ImpulseDiGraph.__overlaps_or_contains:
\* `(begin < iv[2] < end and iv[2]) or iv[2] == begin`
Impulse_overlaps_or_contains(iv, begin, end) ==
    IF begin = NoneV /\ end = NoneV THEN TRUE
    ELSE IF begin = NoneV THEN iv[3] < end
    ELSE IF end = NoneV THEN iv[3] >= begin
    ELSE (begin < iv[3] /\ iv[3] < end /\ iv[3] # 0) \/ iv[3] = begin

\* ImpulseGraph.__edges_interval_first / ImpulseDiGraph.__edges_interval_first
Impulse_edges_interval_first(G, begin, end) ==
    IF GivenReversed(begin, end) THEN [err |-> "NetworkXError", ret |-> << >>]
    ELSE [err |-> "none",
          ret |-> BucketEdges(G.tree, irange(G.tree, begin, end, <<TRUE, FALSE>>))]

\* All edge keys below one node of a node -> neighbour -> edge-dict map
KeysUnder(m, a) == UNION {DOMAIN m[a][b] : b \in DOMAIN m[a]}

\* __edges_node_first of the impulse graphs; out is the map searched by u
\* (_adj or _pred), inn the map searched by v alone (_adj or _succ).
Impulse_edges_node_first(out, inn, u, v, begin, end) ==
    LET skip == IF u = NoneV /\ v = NoneV THEN FALSE
                ELSE IF u # NoneV /\ v # NoneV
                THEN u \notin DOMAIN out \/ v \notin DOMAIN out[u]
                ELSE IF u # NoneV THEN u \notin DOMAIN out
                ELSE v \notin DOMAIN inn
        iedges == IF u = NoneV /\ v = NoneV
                  THEN UNION {KeysUnder(out, a) : a \in DOMAIN out}
                  ELSE IF u # NoneV /\ v # NoneV THEN DOMAIN out[u][v]
                  ELSE IF u # NoneV THEN KeysUnder(out, u)
                  ELSE KeysUnder(inn, v)
    IN IF skip THEN [err |-> "none", ret |-> << >>]
       ELSE IF begin = NoneV /\ end = NoneV THEN [err |-> "none", ret |-> SetToSeq(iedges)]
       ELSE IF GivenReversed(begin, end) THEN [err |-> "NetworkXError", ret |-> << >>]
       ELSE [err |-> "none",
             ret |-> SetToSeq({iv \in iedges : Impulse_overlaps_or_contains(iv, begin, end)})]

\* ImpulseGraph.edges(u, v, begin, end, inclusive), data=False; _model is None.
\* The body never reads inclusive.
ImpulseGraph_edges(G, u, v, begin, end, inclusive) ==
    IF u = NoneV /\ v = NoneV /\ begin = NoneV /\ end = NoneV
    THEN Impulse_edges_node_first(G.adj, G.adj, u, v, begin, end)
    ELSE IF u = NoneV /\ v = NoneV
    THEN Impulse_edges_interval_first(G, begin, end)
    ELSE Impulse_edges_node_first(G.adj, G.adj, u, v, begin, end)

\* ImpulseDiGraph.edges
ImpulseDiGraph_edges(G, u, v, begin, end, inclusive) ==
    IF u = NoneV /\ v = NoneV /\ begin = NoneV /\ end = NoneV
    THEN Impulse_edges_node_first(G.pred, G.succ, u, v, begin, end)
    ELSE IF u = NoneV /\ v = NoneV
    THEN Impulse_edges_interval_first(G, begin, end)
    ELSE Impulse_edges_node_first(G.pred, G.succ, u, v, begin, end)

\* ImpulseGraph.degree(node, begin, end, delta=False, inclusive), node given
ImpulseGraph_degree(G, n, begin, end, inclusive) ==
    LET inc == IF end = NoneV THEN <<inclusive[1], TRUE>> ELSE inclusive
    IN Let1(ImpulseGraph_edges(G, n, NoneV, begin, end, inc), LAMBDA r :
          [err |-> r.err, ret |-> Len(r.ret)])

\* ImpulseDiGraph.degree(node, begin, end, delta=False, inclusive), node given
ImpulseDiGraph_degree(G, n, begin, end, inclusive) ==
    Let1(ImpulseDiGraph_edges(G, n, NoneV, begin, end, inclusive), LAMBDA r1 :
    Let1(ImpulseDiGraph_edges(G, NoneV, n, begin, end, inclusive), LAMBDA r2 :
       IF r1.err # "none" THEN [err |-> r1.err, ret |-> 0]
       ELSE IF r2.err # "none" THEN [err |-> r2.err, ret |-> 0]
       ELSE [err |-> "none", ret |-> Len(r1.ret) + Len(r2.ret)]))

\* key in m[a][b], with a and b present
Has3(m, a, b, key) == a \in DOMAIN m /\ b \in DOMAIN m[a] /\ key \in DOMAIN m[a][b]

\* m.setdefault(a, {}).setdefault(b, {})[key] = id
Put3(m, a, b, key, id) ==
    Let1(SetDefault(m, a, << >>), LAMBDA m1 :
    Let1([m1 EXCEPT ![a] = SetDefault(@, b, << >>)], LAMBDA m2 :
       [m2 EXCEPT ![a][b] = DictPut(@, key, id)]))

\* An add_edge that would merge attr into the dict already stored for
\* (u, v, t) instead of storing attr itself.
ImpulseGraph_add_edge_merging(G, u, v, t, attr) ==
    LET old   == IF Has3(G.adj, u, v, <<u, v, t>>)
                 THEN G.heap[G.adj[u][v][<<u, v, t>>]] ELSE EmptyDict
        heap1 == Append(G.heap, DictUpdate(old, attr))
        id    == Len(heap1)
        tree1 == [SetDefault(G.tree, t, {}) EXCEPT ![t] = @ \cup {<<u, v>>}]
        node1 == SetDefault(SetDefault(G.node, u, EmptyDict), v, EmptyDict)
    IN Let1(Put3(G.adj, u, v, <<u, v, t>>, id), LAMBDA adj1 :
       Let1(Put3(adj1, v, u, <<u, v, t>>, id), LAMBDA adj2 :
          [g |-> [G EXCEPT !.heap = heap1, !.tree = tree1, !.node = node1, !.adj = adj2],
           err |-> "none"]))

\* ImpulseGraph.add_edge(u, v, t, **attr)
ImpulseGraph_add_edge(G, u, v, t, attr) ==
    LET heap1 == Append(G.heap, attr)
        id    == Len(heap1)
        tree1 == [SetDefault(G.tree, t, {}) EXCEPT ![t] = @ \cup {<<u, v>>}]
        node1 == SetDefault(SetDefault(G.node, u, EmptyDict), v, EmptyDict)
    IN Let1(Put3(G.adj, u, v, <<u, v, t>>, id), LAMBDA adj1 :
       Let1(Put3(adj1, v, u, <<u, v, t>>, id), LAMBDA adj2 :
          [g |-> [G EXCEPT !.heap = heap1, !.tree = tree1, !.node = node1, !.adj = adj2],
           err |-> "none"]))

\* An add_edge that would give _succ a copy of attr, not attr itself.
ImpulseDiGraph_add_edge_copying(G, u, v, t, attr) ==
    LET heap1 == Append(Append(G.heap, attr), attr)
        id    == Len(heap1)
        tree1 == [SetDefault(G.tree, t, {}) EXCEPT ![t] = @ \cup {<<u, v>>}]
        node1 == SetDefault(SetDefault(G.node, u, EmptyDict), v, EmptyDict)
    IN [g |-> [G EXCEPT !.heap = heap1, !.tree = tree1, !.node = node1,
                        !.pred = Put3(G.pred, u, v, <<u, v, t>>, id - 1),
                        !.succ = Put3(G.succ, v, u, <<u, v, t>>, id)],
        err |-> "none"]

\* ImpulseDiGraph.add_edge
ImpulseDiGraph_add_edge(G, u, v, t, attr) ==
    LET heap1 == Append(G.heap, attr)
        id    == Len(heap1)
        tree1 == [SetDefault(G.tree, t, {}) EXCEPT ![t] = @ \cup {<<u, v>>}]
        node1 == SetDefault(SetDefault(G.node, u, EmptyDict), v, EmptyDict)
    IN [g |-> [G EXCEPT !.heap = heap1, !.tree = tree1, !.node = node1,
                        !.pred = Put3(G.pred, u, v, <<u, v, t>>, id),
                        !.succ = Put3(G.succ, v, u, <<u, v, t>>, id)],
        err |-> "none"]

\* __remove_iedge of the impulse graphs: every statement sits in one
\* try/except that swallows the exception and returns, keeping what the
\* earlier statements did.  fwd and bwd name the two maps (_adj and _adj, or
\* _pred and _succ).
Impulse_remove_iedge(tr, fwd, bwd, sameMap, iedge) ==
    LET u == iedge[1]
        v == iedge[2]
        t == iedge[3]
    IN IF t \notin DOMAIN tr \/ <<u, v>> \notin tr[t]
       THEN [tree |-> tr, fwd |-> fwd, bwd |-> bwd]
       ELSE LET tr1 == [tr EXCEPT ![t] = @ \ {<<u, v>>}]
            IN IF ~Has3(fwd, u, v, iedge)
               THEN [tree |-> tr1, fwd |-> fwd, bwd |-> bwd]
               ELSE Let1([fwd EXCEPT ![u][v] = DictDrop(@, iedge)], LAMBDA fwd1 :
                    Let1(IF sameMap THEN fwd1 ELSE bwd, LAMBDA bwd0 :
                       IF ~Has3(bwd0, v, u, iedge)
                       THEN [tree |-> tr1, fwd |-> fwd1, bwd |-> bwd0]
                       ELSE Let1([bwd0 EXCEPT ![v][u] = DictDrop(@, iedge)], LAMBDA bwd1 :
                               [tree |-> tr1,
                                fwd |-> IF sameMap THEN bwd1 ELSE fwd1,
                                bwd |-> bwd1])))

RECURSIVE ImpulseGraph_remove_all(_, _)
ImpulseGraph_remove_all(G, ivs) ==
    IF ivs = << >> THEN G
    ELSE Let1(Impulse_remove_iedge(G.tree, G.adj, G.adj, TRUE, Head(ivs)), LAMBDA r :
         Let1([G EXCEPT !.tree = r.tree, !.adj = r.fwd], LAMBDA G1 :
         Let1(Tail(ivs), LAMBDA rest : ImpulseGraph_remove_all(G1, rest))))

RECURSIVE ImpulseDiGraph_remove_all(_, _)
ImpulseDiGraph_remove_all(G, ivs) ==
    IF ivs = << >> THEN G
    ELSE Let1(Impulse_remove_iedge(G.tree, G.pred, G.succ, FALSE, Head(ivs)), LAMBDA r :
         Let1([G EXCEPT !.tree = r.tree, !.pred = r.fwd, !.succ = r.bwd], LAMBDA G1 :
         Let1(Tail(ivs), LAMBDA rest : ImpulseDiGraph_remove_all(G1, rest))))

\* ImpulseGraph.remove_edge(u, v, begin, end, inclusive).  The window test
\* calls __in_interval without inclusive, so its default (True, False) holds.
ImpulseGraph_remove_edge(G, u, v, begin, end, inclusive) ==
    IF u \notin DOMAIN G.adj \/ v \notin DOMAIN G.adj[u] THEN [g |-> G, err |-> "none"]
    ELSE LET keys == DOMAIN G.adj[u][v]
             ivs  == IF begin = NoneV /\ end = NoneV THEN keys
                     ELSE {iv \in keys : in_interval(iv[3], begin, end, <<TRUE, FALSE>>)}
         IN Let1(SetToSeq(ivs), LAMBDA todo :
            Let1(ImpulseGraph_remove_all(G, todo), LAMBDA G1 :
            Let1(IF DOMAIN G1.adj[u][v] = {}
                 THEN [G1.adj EXCEPT ![u] = DictDrop(@, v)] ELSE G1.adj, LAMBDA a1 :
               \* len(self._adj[v][u])
               IF v \notin DOMAIN a1 \/ u \notin DOMAIN a1[v]
               THEN [g |-> [G1 EXCEPT !.adj = a1], err |-> "KeyError"]
               ELSE Let1(IF DOMAIN a1[v][u] = {}
                         THEN [a1 EXCEPT ![v] = DictDrop(@, u)] ELSE a1, LAMBDA a2 :
                    Let1(IF DOMAIN a2[u] = {} THEN DictDrop(a2, u) ELSE a2, LAMBDA a3 :
                       \* len(self._adj[v])
                       IF v \notin DOMAIN a3
                       THEN [g |-> [G1 EXCEPT !.adj = a3], err |-> "KeyError"]
                       ELSE [g |-> [G1 EXCEPT !.adj =
                                       IF DOMAIN a3[v] = {} THEN DictDrop(a3, v) ELSE a3],
                             err |-> "none"])))))

IsEmptyFcn(d) == DOMAIN d = {}

\* ImpulseDiGraph.remove_edge
ImpulseDiGraph_remove_edge(G, u, v, begin, end, inclusive) ==
    IF u \notin DOMAIN G.pred \/ v \notin DOMAIN G.pred[u] THEN [g |-> G, err |-> "none"]
    ELSE LET keys == DOMAIN G.pred[u][v]
             ivs  == IF begin = NoneV /\ end = NoneV THEN keys
                     ELSE {iv \in keys : in_interval(iv[3], begin, end, <<TRUE, TRUE>>)}
         IN Let1(SetToSeq(ivs), LAMBDA todo :
            Let1(ImpulseDiGraph_remove_all(G, todo), LAMBDA G1 :
               [g |-> DiCleanup(G1, u, v, IsEmptyFcn), err |-> "none"]))

\* ----------------------------------------- IntervalGraph: windowed node queries
\* IntervalGraph.number_of_nodes(begin, end)
IntervalGraph_number_of_nodes(G, begin, end) ==
    IF begin = NoneV /\ end = NoneV THEN Cardinality(DOMAIN G.node)
    ELSE Let1(IntervalTree_slice(G.tree, begin, end), LAMBDA iedges :
            Cardinality({iedges[i][1] : i \in 1..Len(iedges)}
                        \cup {iedges[i][2] : i \in 1..Len(iedges)}))

\* IntervalGraph.has_node(n, begin, end)
IntervalGraph_has_node(G, n, begin, end) ==
    IF n \notin DOMAIN G.node THEN [err |-> "none", ret |-> FALSE]
    ELSE IF begin = NoneV /\ end = NoneV THEN [err |-> "none", ret |-> TRUE]
    ELSE IF begin = NoneV /\ end < G.tree.begin THEN [err |-> "none", ret |-> FALSE]
    ELSE IF begin # NoneV /\ end # NoneV /\ end < begin THEN [err |-> "none", ret |-> FALSE]
    ELSE IF TruthyReversed(begin, end) THEN [err |-> "NetworkXError", ret |-> FALSE]
    ELSE Let1(IntervalTree_slice(G.tree, begin, end), LAMBDA iedges :
            [err |-> "none",
             ret |-> \E i \in 1..Len(iedges) : n = iedges[i][1] \/ n = iedges[i][2]])

\* IntervalGraph.nodes(begin, end), data=False: the nodes of the view
IntervalGraph_nodes(G, begin, end) ==
    IF begin = NoneV /\ end = NoneV THEN DOMAIN G.node
    ELSE Let1(IntervalTree_slice(G.tree, begin, end), LAMBDA iedges :
            {iedges[i][1] : i \in 1..Len(iedges)} \cup {iedges[i][2] : i \in 1..Len(iedges)})

\* ------------------------------------------------------ count_temporal_motif
\* Graph(G.to_networkx_graph()): the undirected static graph of the pairs
\* held by the timestamp index; g is its set of <<u, v>> pairs.
to_networkx_graph(G) == UNION {G.tree[t] : t \in DOMAIN G.tree}

\* g.nodes() and g.neighbors(v)
StaticNodes(g) == {e[1] : e \in g} \cup {e[2] : e \in g}
neighbors(g, v) == {e[2] : e \in {x \in g : x[1] = v}} \cup {e[1] : e \in {x \in g : x[2] = v}}

\* random.choice(tuple(v_extension)): any element may come out; lowest picks
\* the least one, otherwise the greatest.
RandomChoice(S, lowest) ==
    IF lowest THEN CHOOSE x \in S : \A y \in S : x <= y
    ELSE CHOOSE x \in S : \A y \in S : x >= y

RECURSIVE extend_subgraph(_, _, _, _, _, _)
RECURSIVE ExtendWhile(_, _, _, _, _, _)
\* __extend_subgraph: the node sets yielded, in order
extend_subgraph(v_subgraph, v_extension, v, g, size_k, lowest) ==
    IF Cardinality(v_subgraph) = size_k THEN <<v_subgraph>>
    ELSE ExtendWhile(v_subgraph, v_extension, v, g, size_k, lowest)

\* `while len(v_extension) != 0` of __extend_subgraph
ExtendWhile(v_subgraph, v_extension, v, g, size_k, lowest) ==
    IF v_extension = {} THEN << >>
    ELSE LET w    == RandomChoice(v_extension, lowest)
             ext1 == v_extension \ {w}
             v2_extension == ext1 \cup {x \in neighbors(g, w) \ v_subgraph : x > v}
         IN extend_subgraph(v_subgraph \cup {w}, v2_extension, v, g, size_k, lowest)
            \o ExtendWhile(v_subgraph, ext1, v, g, size_k, lowest)

\* __enumerate_subgraphs(g, size_k)
enumerate_subgraphs(g, size_k, lowest) ==
    LET vs == SetToSeq(StaticNodes(g))
    IN FlattenSeq([i \in 1..Len(vs) |->
          extend_subgraph({vs[i]}, {x \in neighbors(g, vs[i]) : x > vs[i]},
                          vs[i], g, size_k, lowest)])

\* sorted(counts.keys(), key=len): the keys, shortest first
RECURSIVE SortedByLen(_)
SortedByLen(S) ==
    IF S = {} THEN << >>
    ELSE LET k == CHOOSE x \in S : \A y \in S : Len(x) <= Len(y)
         IN <<k>> \o SortedByLen(S \ {k})

Reversed(q) == [i \in 1..Len(q) |-> q[Len(q) + 1 - i]]

\* counts.get(k): the value, or None
CountsGet(counts, k) == IF k \in DOMAIN counts THEN counts[k] ELSE NoneV

RECURSIVE IncrementEach(_, _, _)
\* for e in edges: counts[prefix + e] (0 when absent) += counts[prefix]
IncrementEach(prefix, edges, counts) ==
    IF edges = << >> THEN counts
    ELSE LET k    == prefix \o Head(edges)
             base == IF k \in DOMAIN counts THEN counts[k] ELSE 0
         IN IncrementEach(prefix, Tail(edges), DictPut(counts, k, base + counts[prefix]))

RECURSIVE IncrementPrefixes(_, _, _, _)
IncrementPrefixes(prefixes, edges, motif_length, counts) ==
    IF prefixes = << >> THEN counts
    ELSE IncrementPrefixes(Tail(prefixes), edges, motif_length,
            IF Len(Head(prefixes)) < 2 * motif_length
            THEN IncrementEach(Head(prefixes), edges, counts) ELSE counts)

RECURSIVE IncrementSingles(_, _)
\* for e in edges: counts[e] (0 when absent) += 1
IncrementSingles(edges, counts) ==
    IF edges = << >> THEN counts
    ELSE LET e == Head(edges)
         IN IncrementSingles(Tail(edges),
               DictPut(counts, e, (IF e \in DOMAIN counts THEN counts[e] ELSE 0) + 1))

\* An increment that would count the edges themselves before extending the
\* prefixes with them.
increment_counts_singles_first(edges, motif_length, counts) ==
    Let1(IncrementSingles(edges, counts), LAMBDA c1 :
        IncrementPrefixes(Reversed(SortedByLen(DOMAIN c1)), edges, motif_length, c1))

\* __increment_counts(edges, motif_length, counts): counts afterwards
increment_counts(edges, motif_length, counts) ==
    IncrementSingles(edges,
        IncrementPrefixes(Reversed(SortedByLen(DOMAIN counts)), edges, motif_length, counts))

RECURSIVE DecrementSingles(_, _)
\* for e in edges: counts[e] -= 1
DecrementSingles(edges, counts) ==
    IF edges = << >> THEN counts
    ELSE DecrementSingles(Tail(edges), [counts EXCEPT ![Head(edges)] = @ - 1])

RECURSIVE DecrementEach(_, _, _)
\* for e in edges: if counts.get(e + suffix): counts[e + suffix] -= counts[suffix]
DecrementEach(suffix, edges, counts) ==
    IF edges = << >> THEN counts
    ELSE LET k == Head(edges) \o suffix
         IN DecrementEach(suffix, Tail(edges),
               IF ~Falsy(CountsGet(counts, k))
               THEN [counts EXCEPT ![k] = @ - counts[suffix]] ELSE counts)

RECURSIVE DecrementSuffixes(_, _, _, _)
DecrementSuffixes(suffixes, edges, motif_length, counts) ==
    IF suffixes = << >> THEN counts
    ELSE DecrementSuffixes(Tail(suffixes), edges, motif_length,
            IF Len(Head(suffixes)) < 2 * (motif_length - 1)
            THEN DecrementEach(Head(suffixes), edges, counts) ELSE counts)

\* __decrement_counts(edges, motif_length, counts): counts afterwards
decrement_counts(edges, motif_length, counts) ==
    DecrementSuffixes(SortedByLen(DOMAIN counts), edges, motif_length,
                      DecrementSingles(edges, counts))

\* sorted(edges, key=lambda x: x[2])
RECURSIVE SortedByTime(_)
SortedByTime(S) ==
    IF S = {} THEN << >>
    ELSE LET m == CHOOSE x \in S : \A y \in S : x[3] <= y[3]
         IN <<m>> \o SortedByTime(S \ {m})

\* The last index of the run of edges that share the timestamp of edges[i]
RECURSIVE SameTimeEnd(_, _)
SameTimeEnd(edges, i) ==
    IF i < Len(edges) /\ edges[i + 1][3] = edges[i][3] THEN SameTimeEnd(edges, i + 1) ELSE i

\* same_time_edges: edges[i][0:2] for the run that starts at i
SameTimeEdges(edges, i) ==
    [j \in 1..(SameTimeEnd(edges, i) - i + 1) |-> <<edges[i + j - 1][1], edges[i + j - 1][2]>>]

RECURSIVE SweepStart(_, _, _, _, _, _)
\* `while edges[start][2] + delta < edges[end][2]`: start and counts afterwards
SweepStart(edges, start, end, delta, motif_length, counts) ==
    IF edges[start][3] + delta < edges[end][3]
    THEN SweepStart(edges, SameTimeEnd(edges, start) + 1, end, delta, motif_length,
                    decrement_counts(SameTimeEdges(edges, start), motif_length, counts))
    ELSE [start |-> start, counts |-> counts]

RECURSIVE Sweep(_, _, _, _, _, _)
\* `while end < len(edges)`: counts afterwards (indices from 1)
Sweep(edges, start, end, delta, motif_length, counts) ==
    IF end > Len(edges) THEN counts
    ELSE LET s == SweepStart(edges, start, end, delta, motif_length, counts)
         IN Sweep(edges, s.start, SameTimeEnd(edges, end) + 1, delta, motif_length,
                  increment_counts(SameTimeEdges(edges, end), motif_length, s.counts))

RECURSIVE MatchesSequence(_, _, _, _)
\* The node_map loop: is keys accepted as isomorphic to node_sequence.
\* `if node_map.get(node_sequence[n])` is false for an unmapped position and
\* for a position mapped to node 0.
MatchesSequence(node_sequence, keys, n, node_map) ==
    IF n > Len(node_sequence) THEN TRUE
    ELSE IF ~Falsy(CountsGet(node_map, node_sequence[n]))
    THEN IF node_map[node_sequence[n]] = keys[n]
         THEN MatchesSequence(node_sequence, keys, n + 1, node_map)
         ELSE FALSE
    ELSE IF \A x \in DOMAIN node_map : node_map[x] # keys[n]
    THEN MatchesSequence(node_sequence, keys, n + 1,
                         DictPut(node_map, node_sequence[n], keys[n]))
    ELSE FALSE

\* The edges gathered for one subgraph: G.edges(u, v) and G.edges(v, u) for
\* every pair of its nodes, and G.edges(u, u).
SubgraphEdges(G, sub) ==
    UNION {SeqRange(ImpulseDiGraph_edges(G, u, v, NoneV, NoneV, <<TRUE, TRUE>>).ret)
           : u \in sub, v \in sub}

\* The counts of one subgraph that enter total_counts
SubgraphCounts(G, sub, sequence, delta) ==
    LET edges  == SortedByTime(SubgraphEdges(G, sub))
        counts == Sweep(edges, 1, 1, delta, Len(sequence), << >>)
        node_sequence == FlattenSeq(sequence)
        kept   == {keys \in DOMAIN counts :
                     /\ Len(keys) = 2 * Len(sequence)
                     /\ counts[keys] # 0
                     /\ MatchesSequence(node_sequence, keys, 1, << >>)}
    IN [keys \in kept |-> counts[keys]]

RECURSIVE TotalCounts(_, _, _, _, _)
\* `for sub in __enumerate_subgraphs(...)`: total_counts afterwards
TotalCounts(G, subs, sequence, delta, total_counts) ==
    IF subs = << >> THEN total_counts
    ELSE TotalCounts(G, Tail(subs), sequence, delta,
                     DictUpdate(total_counts, SubgraphCounts(G, Head(subs), sequence, delta)))

RECURSIVE SumValues(_)
\* sum(total_counts.values())
SumValues(d) ==
    IF DOMAIN d = {} THEN 0
    ELSE LET k == CHOOSE x \in DOMAIN d : TRUE IN d[k] + SumValues(DictDrop(d, k))

\* count_temporal_motif(G, sequence, delta) on an ImpulseDiGraph: the total
\* and the count dictionary of the tuple returned.
count_temporal_motif(G, sequence, delta, lowest) ==
    LET g    == to_networkx_graph(G)
        size_k == Cardinality(SeqRange(FlattenSeq(sequence)))
        total_counts == TotalCounts(G, enumerate_subgraphs(g, size_k, lowest),
                                    sequence, delta, << >>)
    IN [total |-> SumValues(total_counts), counts |-> total_counts]

\* ------------------------------------------------------------ the state machine
Interval == {"IntervalGraph", "IntervalDiGraph"}
Impulse == {"ImpulseGraph", "ImpulseDiGraph"}
Classes == Interval \cup Impulse

\* A query argument that may be left out
OptNodes == Nodes \cup {NoneV}
OptTimes == Times \cup {NoneV}
Inclusives == {<<TRUE, TRUE>>, <<TRUE, FALSE>>, <<FALSE, TRUE>>, <<FALSE, FALSE>>}

\* __init__ of the four classes
Init ==
    /\ cls \in Classes
    /\ node_ = << >>
    /\ adj = << >>
    /\ pred = << >>
    /\ succ = << >>
    /\ heap = << >>
    /\ tree = IF cls \in Interval THEN EmptyTree ELSE << >>
    /\ snapshots = << >>
    /\ call = << >>

\* The object's fields after a mutating call.  A call that raises leaves the
\* fields as they were when the exception left the method.
Mutated(r) ==
    /\ node_' = r.g.node
    /\ adj' = r.g.adj
    /\ pred' = r.g.pred
    /\ succ' = r.g.succ
    /\ heap' = r.g.heap
    /\ tree' = r.g.tree
    /\ cls' = cls
    /\ snapshots' = snapshots
    /\ call' = call

IntervalGraphAddEdge(u, v, begin, end, attr) ==
    /\ cls = "IntervalGraph"
    /\ Len(heap) < MaxAdds
    /\ \E r \in {IntervalGraph_add_edge(Obj, u, v, begin, end, attr)} : Mutated(r)

IntervalDiGraphAddEdge(u, v, begin, end, attr) ==
    /\ cls = "IntervalDiGraph"
    /\ Len(heap) < MaxAdds
    /\ \E r \in {IntervalDiGraph_add_edge(Obj, u, v, begin, end, attr)} : Mutated(r)

ImpulseGraphAddEdge(u, v, t, attr) ==
    /\ cls = "ImpulseGraph"
    /\ Len(heap) < MaxAdds
    /\ \E r \in {ImpulseGraph_add_edge(Obj, u, v, t, attr)} : Mutated(r)

ImpulseDiGraphAddEdge(u, v, t, attr) ==
    /\ cls = "ImpulseDiGraph"
    /\ Len(heap) < MaxAdds
    /\ \E r \in {ImpulseDiGraph_add_edge(Obj, u, v, t, attr)} : Mutated(r)

IntervalGraphRemoveEdge(u, v, begin, end, overlapping) ==
    /\ cls = "IntervalGraph"
    /\ \E r \in {IntervalGraph_remove_edge(Obj, u, v, begin, end, overlapping)} : Mutated(r)

IntervalDiGraphRemoveEdge(u, v, begin, end, overlapping) ==
    /\ cls = "IntervalDiGraph"
    /\ \E r \in {IntervalDiGraph_remove_edge(Obj, u, v, begin, end, overlapping)} : Mutated(r)

ImpulseGraphRemoveEdge(u, v, begin, end, inclusive) ==
    /\ cls = "ImpulseGraph"
    /\ \E r \in {ImpulseGraph_remove_edge(Obj, u, v, begin, end, inclusive)} : Mutated(r)

ImpulseDiGraphRemoveEdge(u, v, begin, end, inclusive) ==
    /\ cls = "ImpulseDiGraph"
    /\ \E r \in {ImpulseDiGraph_remove_edge(Obj, u, v, begin, end, inclusive)} : Mutated(r)

IntervalAddEdge ==
    /\ \E u \in Nodes, v \in Nodes, begin \in Times, end \in Times,
          attr \in IntervalAttrDicts :
           \/ IntervalGraphAddEdge(u, v, begin, end, attr)
           \/ IntervalDiGraphAddEdge(u, v, begin, end, attr)

ImpulseAddEdge ==
    /\ \E u \in Nodes, v \in Nodes, t \in Times, attr \in ImpulseAttrDicts :
           \/ ImpulseGraphAddEdge(u, v, t, attr)
           \/ ImpulseDiGraphAddEdge(u, v, t, attr)

IntervalRemoveEdge ==
    /\ \E u \in Nodes, v \in Nodes, begin \in OptTimes, end \in OptTimes,
          overlapping \in BOOLEAN :
           \/ IntervalGraphRemoveEdge(u, v, begin, end, overlapping)
           \/ IntervalDiGraphRemoveEdge(u, v, begin, end, overlapping)

ImpulseRemoveEdge ==
    /\ \E u \in Nodes, v \in Nodes, begin \in OptTimes, end \in OptTimes,
          inclusive \in Inclusives :
           \/ ImpulseGraphRemoveEdge(u, v, begin, end, inclusive)
           \/ ImpulseDiGraphRemoveEdge(u, v, begin, end, inclusive)

\* Any of the four classes, built and changed by add_edge and remove_edge.
Next == IntervalAddEdge \/ ImpulseAddEdge \/ IntervalRemoveEdge \/ ImpulseRemoveEdge

Spec == Init /\ [][Next]_vars

\* A graph built by add_edge calls alone.
NextAdd == IntervalAddEdge \/ ImpulseAddEdge

SpecAdd == Init /\ [][NextAdd]_vars

\* ------------------------------------------------------------ what is stored
\* The edge keys held by the adjacency maps of the object.
StoredEdges(G) ==
    IF cls = "IntervalGraph"
    THEN UNION {SeqRange(OKeys(G.adj[a])) : a \in DOMAIN G.adj}
    ELSE IF cls = "IntervalDiGraph"
    THEN UNION {UNION {SeqRange(OKeys(G.pred[a][b])) : b \in DOMAIN G.pred[a]}
                : a \in DOMAIN G.pred}
    ELSE IF cls = "ImpulseGraph"
    THEN UNION {KeysUnder(G.adj, a) : a \in DOMAIN G.adj}
    ELSE UNION {KeysUnder(G.pred, a) : a \in DOMAIN G.pred}

\* edges(u, v, begin, end) of the interval class of the object
Interval_edges(G, u, v, begin, end) ==
    IF cls = "IntervalGraph" THEN IntervalGraph_edges(G, u, v, begin, end)
    ELSE IntervalDiGraph_edges(G, u, v, begin, end)

\* add_edge(u, v, begin, end, **attr) of the interval class of the object
Interval_add_edge(G, u, v, begin, end, attr) ==
    IF cls = "IntervalGraph" THEN IntervalGraph_add_edge(G, u, v, begin, end, attr)
    ELSE IntervalDiGraph_add_edge(G, u, v, begin, end, attr)

\* remove_edge(u, v, begin, end, overlapping) of the interval class of the object
Interval_remove_edge(G, u, v, begin, end, overlapping) ==
    IF cls = "IntervalGraph" THEN IntervalGraph_remove_edge(G, u, v, begin, end, overlapping)
    ELSE IntervalDiGraph_remove_edge(G, u, v, begin, end, overlapping)

\* remove_edge(u, v, begin, end, inclusive) of the impulse class of the object
Impulse_remove_edge(G, u, v, begin, end, inclusive) ==
    IF cls = "ImpulseGraph" THEN ImpulseGraph_remove_edge(G, u, v, begin, end, inclusive)
    ELSE ImpulseDiGraph_remove_edge(G, u, v, begin, end, inclusive)

\* The node map, the adjacency maps and the index of two objects are equal.
SameStructure(G1, G2) ==
    /\ G1.node = G2.node
    /\ G1.adj = G2.adj
    /\ G1.pred = G2.pred
    /\ G1.succ = G2.succ
    /\ G1.tree = G2.tree

\* ------------------------------------------------------------------- claims
\* Every stored interval has its begin before its end.
ProperIntervals(G) == \A ed \in StoredEdges(G) : ed[3] < ed[4]

\* C1: on an interval graph built by add_edge calls (of intervals with
\* begin < end), edges(begin=b, end=e) with both bounds given and b <= e
\* returns exactly the stored edges (u, v, low, high) with
\* (low < e and high > b) or low == b.
C1_EdgesWindowExact ==
    (cls \in Interval /\ ProperIntervals(Obj)) =>
        \A b \in Times, e \in Times :
            b <= e =>
                LET r == Interval_edges(Obj, NoneV, NoneV, b, e)
                IN /\ r.err = "none"
                   /\ SeqRange(r.ret) =
                         {ed \in StoredEdges(Obj) :
                            (ed[3] < e /\ ed[4] > b) \/ ed[3] = b}

\* C2: add_edge of an interval graph called with end <= begin fails, and the
\* node map, the adjacency maps and the interval tree are as before the call.
C2_BadIntervalRejected ==
    cls \in Interval =>
        \A u \in Nodes, v \in Nodes, b \in Times, e \in Times, attr \in IntervalAttrDicts :
            e <= b =>
                LET r == Interval_add_edge(Obj, u, v, b, e, attr)
                IN r.err # "none" /\ SameStructure(r.g, Obj)

\* The attribute dict stored for an edge key of an interval graph.
Interval_attr(G, key) ==
    IF cls = "IntervalGraph" THEN G.heap[OGet(G.adj[key[1]], key)]
    ELSE G.heap[OGet(G.pred[key[1]][key[2]], key)]

\* C3: on an interval graph built by add_edge calls (of intervals with
\* begin < end) every further add_edge (begin < end) succeeds, edges() then returns each distinct added key once,
\* and a key added again carries the merge of its attributes, later values
\* winning.
C3_AddAlwaysSucceeds ==
    (cls \in Interval /\ ProperIntervals(Obj)) =>
        \A u \in Nodes, v \in Nodes, b \in Times, e \in Times, attr \in IntervalAttrDicts :
            b < e =>
                LET key  == <<u, v, b, e>>
                    r    == Interval_add_edge(Obj, u, v, b, e, attr)
                    all  == Interval_edges(r.g, NoneV, NoneV, NoneV, NoneV)
                IN /\ r.err = "none"
                   /\ all.err = "none"
                   /\ SeqRange(all.ret) = StoredEdges(Obj) \cup {key}
                   /\ Len(all.ret) = Cardinality(StoredEdges(Obj) \cup {key})
                   /\ Interval_attr(r.g, key) =
                         IF key \in StoredEdges(Obj)
                         THEN DictUpdate(Interval_attr(Obj, key), attr) ELSE attr

\* A window a caller may pass: a bound may be left out, and two given bounds
\* are in order.
WellFormedWindow(b, e) == b = NoneV \/ e = NoneV \/ b <= e

\* C4: remove_edge(u, v, ...) when no edge between u and v is stored, u or v
\* unknown included, raises no error and changes nothing, on every variant.
C4_RemoveAbsentIsQuiet ==
    \A u \in Nodes, v \in Nodes, b \in OptTimes, e \in OptTimes :
        (/\ WellFormedWindow(b, e)
         /\ \A ed \in StoredEdges(Obj) : {ed[1], ed[2]} # {u, v}) =>
            IF cls \in Interval
            THEN LET r == Interval_remove_edge(Obj, u, v, b, e, TRUE)
                 IN r.err = "none" /\ r.g = Obj
            ELSE \A inclusive \in Inclusives :
                    LET r == Impulse_remove_edge(Obj, u, v, b, e, inclusive)
                    IN r.err = "none" /\ r.g = Obj

\* C5: remove_edge called twice in a row with the same arguments leaves the
\* graph as one call does, and the second call raises no error.
C5_RemoveTwiceIsOnce ==
    \A u \in Nodes, v \in Nodes, b \in OptTimes, e \in OptTimes :
        WellFormedWindow(b, e) =>
            IF cls \in Interval
            THEN LET r1 == Interval_remove_edge(Obj, u, v, b, e, TRUE)
                     r2 == Interval_remove_edge(r1.g, u, v, b, e, TRUE)
                 IN r2.err = "none" /\ r2.g = r1.g
            ELSE \A inclusive \in Inclusives :
                    LET r1 == Impulse_remove_edge(Obj, u, v, b, e, inclusive)
                        r2 == Impulse_remove_edge(r1.g, u, v, b, e, inclusive)
                    IN r2.err = "none" /\ r2.g = r1.g

\* The number of entries of a list equal to x
Count(seq, x) == Cardinality({i \in 1..Len(seq) : seq[i] = x})

\* edges() with no filters of the impulse class of the object
Impulse_all_edges(G) ==
    IF cls = "ImpulseGraph"
    THEN ImpulseGraph_edges(G, NoneV, NoneV, NoneV, NoneV, <<TRUE, FALSE>>)
    ELSE ImpulseDiGraph_edges(G, NoneV, NoneV, NoneV, NoneV, <<TRUE, TRUE>>)

\* add_edge(u, v, t, **attr) of the impulse class of the object
Impulse_add_edge(G, u, v, t, attr) ==
    IF cls = "ImpulseGraph" THEN ImpulseGraph_add_edge(G, u, v, t, attr)
    ELSE ImpulseDiGraph_add_edge(G, u, v, t, attr)

\* The attribute dict reached for an impulse edge key from its first node,
\* and the one reached from its second node.
Impulse_attr(G, key) ==
    IF cls = "ImpulseGraph" THEN G.heap[G.adj[key[1]][key[2]][key]]
    ELSE G.heap[G.pred[key[1]][key[2]][key]]

Impulse_attr_back(G, key) ==
    IF cls = "ImpulseGraph" THEN G.heap[G.adj[key[2]][key[1]][key]]
    ELSE G.heap[G.succ[key[2]][key[1]][key]]

InTable(t, b, e, inclusive) ==
    /\ IF inclusive[1] THEN b <= t ELSE b < t
    /\ IF inclusive[2] THEN t <= e ELSE t < e

\* degree(n, begin, end, inclusive) of the impulse class of the object
Impulse_degree(G, n, begin, end, inclusive) ==
    IF cls = "ImpulseGraph" THEN ImpulseGraph_degree(G, n, begin, end, inclusive)
    ELSE ImpulseDiGraph_degree(G, n, begin, end, inclusive)

\* edges(begin, end, inclusive) of the impulse class of the object
Impulse_edges(G, u, v, begin, end, inclusive) ==
    IF cls = "ImpulseGraph" THEN ImpulseGraph_edges(G, u, v, begin, end, inclusive)
    ELSE ImpulseDiGraph_edges(G, u, v, begin, end, inclusive)

\* C7: on an impulse graph edges(begin=b, end=e, inclusive=I) returns exactly
\* the stored edges whose timestamp satisfies the boundary table for I, and
\* degree(n, b, e, I) counts exactly the edge ends at n of those edges.
C7_InclusiveTable ==
    cls \in Impulse =>
        \A b \in Times, e \in Times, inclusive \in Inclusives :
            b <= e =>
                LET sel == {ed \in StoredEdges(Obj) : InTable(ed[3], b, e, inclusive)}
                    r   == Impulse_edges(Obj, NoneV, NoneV, b, e, inclusive)
                IN /\ r.err = "none"
                   /\ SeqRange(r.ret) = sel
                   /\ \A n \in Nodes :
                         Impulse_degree(Obj, n, b, e, inclusive).ret =
                            IF cls = "ImpulseGraph"
                            THEN Cardinality({ed \in sel : ed[1] = n \/ ed[2] = n})
                            ELSE Cardinality({ed \in sel : ed[1] = n})
                                 + Cardinality({ed \in sel : ed[2] = n})

\* C8: after any sequence of add_edge calls, every stored edge is reached
\* from both adjacency directions, and both hold the same attribute object.
C8_SharedAttrObject ==
    \A key \in StoredEdges(Obj) :
        LET a == key[1]
            b == key[2]
        IN IF cls = "IntervalGraph"
           THEN /\ OHas(adj[a], key) /\ OHas(adj[b], key)
                /\ OGet(adj[a], key) = OGet(adj[b], key)
           ELSE IF cls = "IntervalDiGraph"
           THEN /\ b \in DOMAIN succ /\ a \in DOMAIN succ[b] /\ OHas(succ[b][a], key)
                /\ OGet(pred[a][b], key) = OGet(succ[b][a], key)
           ELSE IF cls = "ImpulseGraph"
           THEN /\ Has3(adj, a, b, key) /\ Has3(adj, b, a, key)
                /\ adj[a][b][key] = adj[b][a][key]
           ELSE /\ Has3(succ, b, a, key)
                /\ pred[a][b][key] = succ[b][a][key]

\* C8 witness: an edge between two different nodes whose key was added a
\* second time.
C8_Witness ==
    /\ Len(heap) = 2
    /\ Cardinality(StoredEdges(Obj)) = 1
    /\ \A key \in StoredEdges(Obj) : key[1] # key[2]

\* The window predicate of the node queries of an interval graph: both
\* bounds given, or end alone.
InWindow(ed, b, e) ==
    IF b = NoneV THEN ed[3] < e
    ELSE (ed[3] < e /\ ed[4] > b) \/ ed[3] = b

\* C10: on an IntervalGraph (intervals stored with begin < end), for a
\* window with both bounds or with end alone, has_node(n, b, e), n in
\* nodes(b, e) and number_of_nodes(b, e) all agree with: n is an endpoint of
\* a stored edge that satisfies the window predicate.
C10_NodeWindowsAgree ==
    (cls = "IntervalGraph" /\ ProperIntervals(Obj)) =>
        \A b \in OptTimes, e \in Times :
            (b = NoneV \/ b <= e) =>
                LET present == {n \in Nodes : \E ed \in StoredEdges(Obj) :
                                   (ed[1] = n \/ ed[2] = n) /\ InWindow(ed, b, e)}
                IN /\ \A n \in Nodes :
                         LET r == IntervalGraph_has_node(Obj, n, b, e)
                         IN r.err = "none" /\ (r.ret <=> n \in present)
                   /\ IntervalGraph_nodes(Obj, b, e) = present
                   /\ IntervalGraph_number_of_nodes(Obj, b, e) = Cardinality(present)

\* ---- temporal motifs
\* The motifs counted and the time windows tried
Motifs == {<< <<1, 2>> >>, << <<1, 2>>, <<1, 2>> >>, << <<1, 2>>, <<2, 1>> >>,
           << <<1, 2>>, <<2, 3>> >>}
MaxDelta == 2
Deltas == 0..MaxDelta

\* The flattened node tuple of a sequence of edges
KeyOf(q) == FlattenSeq([i \in 1..Len(q) |-> <<q[i][1], q[i][2]>>])

\* key arises from node_sequence by a one-to-one relabelling of positions
Relabels(node_sequence, key) ==
    \A i \in 1..Len(node_sequence), j \in 1..Len(node_sequence) :
        (node_sequence[i] = node_sequence[j]) <=> (key[i] = key[j])

\* The sequences of edges of E, as long as the motif, with strictly
\* increasing timestamps, last minus first at most delta, that map onto it.
Occurrences(E, sequence, delta) ==
    LET l == Len(sequence)
    IN {q \in [1..l -> E] :
          /\ \A i \in 1..(l - 1) : q[i][3] < q[i + 1][3]
          /\ q[l][3] - q[1][3] <= delta
          /\ Relabels(FlattenSeq(sequence), KeyOf(q))}

\* The number of occurrences per matched node tuple
OccurrenceCounts(E, sequence, delta) ==
    LET occ == Occurrences(E, sequence, delta)
    IN [k \in {KeyOf(q) : q \in occ} |-> Cardinality({q \in occ : KeyOf(q) = k})]

\* The ImpulseDiGraph of the documented example and its motif
ExampleEdges == <<<<1, 2, 30>>, <<3, 2, 30>>, <<4, 2, 30>>, <<2, 5, 32>>, <<2, 5, 33>>>>
ExampleMotif == << <<1, 2>>, <<2, 3>>, <<2, 3>> >>

RECURSIVE AddAll(_, _)
AddAll(G, edges) ==
    IF edges = << >> THEN G
    ELSE AddAll(ImpulseDiGraph_add_edge(G, Head(edges)[1], Head(edges)[2], Head(edges)[3],
                                        EmptyDict).g, Tail(edges))

ExampleGraph ==
    AddAll([node |-> << >>, adj |-> << >>, pred |-> << >>, succ |-> << >>,
            heap |-> << >>, tree |-> << >>], ExampleEdges)

\* C9: count_temporal_motif(G, motif, delta) returns as total the number of
\* occurrences of the motif (of any length >= 1) among the edges of G and as
\* mapping their number per node tuple (here for graphs whose node ids are
\* not 0); for the documented example the total is 3, one per tuple.
C9_MotifCount ==
    /\ (cls = "ImpulseDiGraph" /\ \A ed \in StoredEdges(Obj) : ed[1] # 0 /\ ed[2] # 0) =>
          \A sequence \in Motifs, delta \in Deltas, lowest \in BOOLEAN :
              LET r == count_temporal_motif(Obj, sequence, delta, lowest)
              IN /\ r.counts = OccurrenceCounts(StoredEdges(Obj), sequence, delta)
                 /\ r.total = Cardinality(Occurrences(StoredEdges(Obj), sequence, delta))
    /\ \A lowest \in BOOLEAN :
          LET r == count_temporal_motif(ExampleGraph, ExampleMotif, 3, lowest)
          IN /\ r.total = 3
             /\ r.counts = [k \in {<<1, 2, 2, 5, 2, 5>>, <<4, 2, 2, 5, 2, 5>>,
                                   <<3, 2, 2, 5, 2, 5>>} |-> 1]

\* --------------------------------------------- degree and nodes in a window
\* IntervalGraph.degree(node, begin, end, delta=False), node given
IntervalGraph_degree(G, n, begin, end) ==
    Let1(IntervalGraph_edges(G, n, NoneV, begin, end), LAMBDA r :
       [err |-> r.err, ret |-> Len(r.ret)])

\* ImpulseGraph.__search_tree / ImpulseDiGraph.__search_tree: the edges
\* yielded, in order; __validate_interval raises first.
Impulse_search_tree(G, begin, end, inclusive) ==
    IF GivenReversed(begin, end) THEN [err |-> "NetworkXError", ret |-> << >>]
    ELSE [err |-> "none",
          ret |-> (IF begin # NoneV /\ begin = end /\ begin \in DOMAIN G.tree
                   THEN BucketEdges(G.tree, <<begin>>) ELSE << >>)
                  \o BucketEdges(G.tree, irange(G.tree, begin, end, inclusive))]

\* ImpulseGraph.nodes(begin, end, inclusive), data=False: the nodes of the view
ImpulseGraph_nodes(G, begin, end, inclusive) ==
    IF begin = NoneV /\ end = NoneV THEN [err |-> "none", ret |-> DOMAIN G.node]
    ELSE Let1(Impulse_search_tree(G, begin, end, inclusive), LAMBDA r :
            [err |-> r.err,
             ret |-> {r.ret[i][1] : i \in 1..Len(r.ret)} \cup {r.ret[i][2] : i \in 1..Len(r.ret)}])

RECURSIVE SumOver(_, _)
\* sum(f[n] for n in S)
SumOver(f, S) ==
    IF S = {} THEN 0
    ELSE LET n == CHOOSE x \in S : TRUE IN f[n] + SumOver(f, S \ {n})

NoSelfLoops(G) == \A ed \in StoredEdges(G) : ed[1] # ed[2]

\* C11: on an undirected IntervalGraph or ImpulseGraph without self-loops,
\* for every window whose queries succeed, the sum of degree(n, begin, end)
\* over the nodes of nodes(begin, end) is twice the number of edges returned
\* by edges(begin=begin, end=end).
C11_DegreeSumTwiceEdges ==
    /\ (cls = "IntervalGraph" /\ NoSelfLoops(Obj) /\ ProperIntervals(Obj)) =>
          \A b \in OptTimes, e \in OptTimes :
              LET ns  == IntervalGraph_nodes(Obj, b, e)
                  deg == [n \in ns |-> IntervalGraph_degree(Obj, n, b, e)]
                  ed  == IntervalGraph_edges(Obj, NoneV, NoneV, b, e)
              IN (ed.err = "none" /\ \A n \in ns : deg[n].err = "none") =>
                    SumOver([n \in ns |-> deg[n].ret], ns) = 2 * Len(ed.ret)
    /\ (cls = "ImpulseGraph" /\ NoSelfLoops(Obj)) =>
          \A b \in OptTimes, e \in OptTimes :
              LET nr  == ImpulseGraph_nodes(Obj, b, e, <<TRUE, FALSE>>)
                  ns  == nr.ret
                  deg == [n \in ns |-> ImpulseGraph_degree(Obj, n, b, e, <<TRUE, FALSE>>)]
                  ed  == ImpulseGraph_edges(Obj, NoneV, NoneV, b, e, <<TRUE, FALSE>>)
              IN (nr.err = "none" /\ ed.err = "none" /\ \A n \in ns : deg[n].err = "none") =>
                    SumOver([n \in ns |-> deg[n].ret], ns) = 2 * Len(ed.ret)

\* ------------------------------------------------ IntervalGraph.degree, delta
\* The keys (time, +1/-1) of the SortedDict sd, ascending as tuples compare
RECURSIVE SortedKeys(_)
SortedKeys(K) ==
    IF K = {} THEN << >>
    ELSE LET m == CHOOSE x \in K : \A y \in K :
                     x[1] < y[1] \/ (x[1] = y[1] /\ x[2] <= y[2])
         IN <<m>> \o SortedKeys(K \ {m})

RECURSIVE DeltaOutput(_, _, _, _)
\* `for time in sd: for edge in sd[time]`: keys is the list of sd's keys,
\* cnt[k] the length of sd[k]; one output pair per entry of sd[k].
DeltaOutput(keys, cnt, begin, current_degree) ==
    IF keys = << >> THEN << >>
    ELSE LET time == Head(keys)
             step == IF time[1] # begin THEN time[2] ELSE 0
             outs == [i \in 1..cnt[time] |-> <<time[1], current_degree + i * step>>]
         IN outs \o DeltaOutput(Tail(keys), cnt, begin, current_degree + cnt[time] * step)

\* IntervalGraph.degree(node, begin, end, delta=True), node given
IntervalGraph_degree_delta(G, node, begin0, end0) ==
    LET begin == IF begin0 = NoneV THEN G.tree.begin ELSE begin0
        end   == IF end0 = NoneV THEN G.tree.end ELSE end0
    IN Let1(IntervalGraph_degree(G, node, begin, begin), LAMBDA cur :
       Let1(IntervalGraph_edges(G, node, NoneV, begin, end), LAMBDA r :
          IF cur.err # "none" THEN [err |-> cur.err, ret |-> << >>]
          ELSE IF r.err # "none" THEN [err |-> r.err, ret |-> << >>]
          ELSE LET edges == r.ret
                   K   == {<<edges[i][3], 1>> : i \in {j \in 1..Len(edges) : edges[j][3] >= begin}}
                          \cup {<<edges[i][4], 0 - 1>> :
                                  i \in {j \in 1..Len(edges) : edges[j][4] < end}}
                   cnt == [k \in K |->
                             IF k[2] = 1
                             THEN Cardinality({j \in 1..Len(edges) :
                                                 edges[j][3] >= begin /\ edges[j][3] = k[1]})
                             ELSE Cardinality({j \in 1..Len(edges) :
                                                 edges[j][4] < end /\ edges[j][4] = k[1]})]
               IN [err |-> "none", ret |-> DeltaOutput(SortedKeys(K), cnt, begin, cur.ret)]))

\* The edges stored at node n, and how many of them are active at time t
IncidentEdges(G, n) == {ed \in StoredEdges(G) : ed[1] = n \/ ed[2] = n}
ActiveAt(G, n, t) == Cardinality({ed \in IncidentEdges(G, n) : ed[3] <= t /\ t < ed[4]})

\* No stored edge has 0 as a node id or as its begin
NoZeros(G) == \A ed \in StoredEdges(G) : ed[1] # 0 /\ ed[2] # 0 /\ ed[3] # 0

\* C12: on an IntervalGraph (intervals with begin < end, no self-loops, node
\* ids, times and given bounds other than 0, window begin < window end),
\* degree(node, begin, end, delta=True) is the ascending list of one pair
\* (t, d) per distinct time t of the window at which an edge at node begins
\* or ends, d being the number of edges at node active after time t's begins
\* and ends.
C12_DegreeDeltaPerTime ==
    (cls = "IntervalGraph" /\ ProperIntervals(Obj) /\ NoSelfLoops(Obj) /\ NoZeros(Obj)) =>
        \A n \in DOMAIN node_, b \in OptTimes \ {0}, e \in OptTimes \ {0} :
            LET bb == IF b = NoneV THEN tree.begin ELSE b
                ee == IF e = NoneV THEN tree.end ELSE e
            IN (bb < ee) =>
                LET T  == {t \in Times : /\ bb <= t /\ t < ee
                                         /\ \E ed \in IncidentEdges(Obj, n) :
                                               ed[3] = t \/ ed[4] = t}
                    ts == SortedSeq(T)
                    r  == IntervalGraph_degree_delta(Obj, n, b, e)
                IN /\ r.err = "none"
                   /\ r.ret = [i \in 1..Len(ts) |-> <<ts[i], ActiveAt(Obj, n, ts[i])>>]

\* ------------------------------------------------------------ SnapshotGraph
\* A SnapshotGraph object is its SortedDict snapshots, from keys <<start, end>>
\* to networkx Graph objects; a Graph object is an index of heap, holding
\* [nodes, edges].
MaxSnapTime == 4
MaxGraphs == 4
SnapTimes == 0..MaxSnapTime
OptSnapTimes == SnapTimes \cup {NoneV}
SnapObj == [snapshots |-> snapshots, heap |-> heap]

\* Graph(); g.add_edges_from(ebunch)
NewGraph(ebunch) ==
    [nodes |-> {ed[1] : ed \in ebunch} \cup {ed[2] : ed \in ebunch}, edges |-> ebunch]

\* The keys of the SortedDict in order (tuples compare by start, then end)
RECURSIVE SortedPairs(_)
SortedPairs(K) ==
    IF K = {} THEN << >>
    ELSE LET m == CHOOSE x \in K : \A y \in K :
                     x[1] < y[1] \/ (x[1] = y[1] /\ x[2] <= y[2])
         IN <<m>> \o SortedPairs(K \ {m})

SnapKeys(S) == SortedPairs(DOMAIN S.snapshots)

\* self.snapshots.bisect_left((x,)): the one-element tuple sorts before
\* every key that starts at x, after every key that starts earlier.
bisect_left(S, x) == Cardinality({k \in DOMAIN S.snapshots : k[1] < x})

\* SnapshotGraph.insert(graph, start, end), time=None and both bounds given
SnapshotGraph_insert(S, graph, start, end) ==
    IF start > end THEN [g |-> S, err |-> "ValueError"]
    ELSE [g |-> [S EXCEPT !.snapshots = DictPut(@, <<start, end>>, graph)], err |-> "none"]

\* copy.deepcopy(g): a new Graph object with the content of g
DeepCopy(S, graph) == [S EXCEPT !.heap = Append(@, S.heap[graph])]

\* `key, g = self.snapshots.popitem(idx); self.insert(g, key[0], at);
\*  self.insert(copy.deepcopy(g), at, key[1])`; idx counts from 0.
SplitAt(S, idx, at) ==
    LET key == SnapKeys(S)[idx + 1]
        gid == S.snapshots[key]
    IN Let1(SnapshotGraph_insert([S EXCEPT !.snapshots = DictDrop(@, key)], gid, key[1], at),
            LAMBDA r1 :
         IF r1.err # "none" THEN r1
         ELSE Let1(DeepCopy(r1.g, gid), LAMBDA S2 :
                 SnapshotGraph_insert(S2, Len(S2.heap), at, key[2])))

\* graphs[min_idx: max_idx] of the items view; indices count from 0
ItemsSlice(S, min_idx, max_idx) ==
    LET keys == SnapKeys(S)
    IN [i \in 1..(IF max_idx > min_idx THEN max_idx - min_idx ELSE 0) |->
          <<keys[min_idx + i], S.snapshots[keys[min_idx + i]]>>]

\* The start part of SnapshotGraph._get (retrieve by interval): the object
\* after it and min_idx.
GetStart(S, start, split_overlaps) ==
    IF start = NoneV THEN [g |-> S, err |-> "none", min_idx |-> 0]
    ELSE LET min_idx == bisect_left(S, start)
             keys    == SnapKeys(S)
         IN IF min_idx = 0 THEN [g |-> S, err |-> "none", min_idx |-> 0]
            ELSE IF min_idx >= Len(keys) THEN [g |-> S, err |-> "IndexError", min_idx |-> min_idx]
            ELSE IF ~(start < keys[min_idx + 1][1])
            THEN [g |-> S, err |-> "none", min_idx |-> min_idx]
            ELSE IF split_overlaps
            THEN Let1(SplitAt(S, min_idx - 1, start), LAMBDA r :
                    [g |-> r.g, err |-> r.err, min_idx |-> min_idx])
            ELSE [g |-> S, err |-> "none", min_idx |-> min_idx - 1]

\* The end part of SnapshotGraph._get: the object after it and max_idx.
GetEnd(S, end, split_overlaps) ==
    IF end = NoneV THEN [g |-> S, err |-> "none", max_idx |-> Cardinality(DOMAIN S.snapshots)]
    ELSE LET max_idx == bisect_left(S, end)
             keys    == SnapKeys(S)
         IN IF split_overlaps /\ max_idx < Len(keys) /\ end < keys[max_idx + 1][2]
            THEN Let1(SplitAt(S, max_idx, end), LAMBDA r :
                    [g |-> r.g, err |-> r.err, max_idx |-> max_idx])
            ELSE [g |-> S, err |-> "none", max_idx |-> max_idx]

\* SnapshotGraph._get(start=start, end=end, include_interval=True,
\* split_overlaps=...), consumed to its end: the object afterwards and the
\* (key, graph) items yielded.
SnapshotGraph_get_(S, start, end, split_overlaps) ==
    Let1(GetStart(S, start, split_overlaps), LAMBDA r1 :
       IF r1.err # "none" THEN [g |-> r1.g, err |-> r1.err, ret |-> << >>]
       ELSE Let1(GetEnd(r1.g, end, split_overlaps), LAMBDA r2 :
               IF r2.err # "none" THEN [g |-> r2.g, err |-> r2.err, ret |-> << >>]
               ELSE [g |-> r2.g, err |-> "none",
                     ret |-> ItemsSlice(r2.g, r1.min_idx, r2.max_idx)]))

\* SnapshotGraph.get(start=start, end=end): the list of graphs
SnapshotGraph_get(S, start, end) ==
    Let1(SnapshotGraph_get_(S, start, end, FALSE), LAMBDA r :
       [err |-> r.err, ret |-> [i \in 1..Len(r.ret) |-> r.ret[i][2]]])

RECURSIVE ApplyToEach(_, _, _)
\* `for graph in ...: graph.add_..._from(...)`: Change applied to each graph
\* of the list ids in turn
ApplyToEach(h, ids, change) ==
    IF ids = << >> THEN h
    ELSE ApplyToEach([h EXCEPT ![Head(ids)] =
                        [nodes |-> @.nodes \cup change.nodes, edges |-> @.edges \cup change.edges]],
                     Tail(ids), change)

\* The by-interval branch shared by add_nodes_from and add_edges_from
AddFrom(S, change, start, end) ==
    Let1(SnapshotGraph_get_(S, start, end, TRUE), LAMBDA r :
       IF r.err # "none" THEN [g |-> r.g, err |-> r.err]
       ELSE [g |-> [r.g EXCEPT !.heap = ApplyToEach(@, [i \in 1..Len(r.ret) |-> r.ret[i][2]],
                                                     change)],
             err |-> "none"])

\* SnapshotGraph.add_nodes_from(nbunch, start=start, end=end)
SnapshotGraph_add_nodes_from(S, nbunch, start, end) ==
    AddFrom(S, [nodes |-> nbunch, edges |-> {}], start, end)

\* SnapshotGraph.add_edges_from(ebunch, start=start, end=end)
SnapshotGraph_add_edges_from(S, ebunch, start, end) ==
    AddFrom(S, NewGraph(ebunch), start, end)

\* SnapshotGraph.add_snapshot(ebunch, start=start, end=end)
SnapshotGraph_add_snapshot(S, ebunch, start, end) ==
    Let1([S EXCEPT !.heap = Append(@, NewGraph(ebunch))], LAMBDA S1 :
       SnapshotGraph_insert(S1, Len(S1.heap), start, end))

\* SnapshotGraph.__init__
InitSnapshot ==
    /\ cls = "SnapshotGraph"
    /\ node_ = << >>
    /\ adj = << >>
    /\ pred = << >>
    /\ succ = << >>
    /\ heap = << >>
    /\ tree = << >>
    /\ snapshots = << >>
    /\ call = << >>

SnapMutated(r) ==
    /\ snapshots' = r.g.snapshots
    /\ heap' = r.g.heap
    /\ UNCHANGED <<cls, node_, adj, pred, succ, tree, call>>

SnapshotAddSnapshot ==
    /\ cls = "SnapshotGraph"
    /\ Len(heap) < MaxGraphs
    /\ \E start \in SnapTimes, end \in SnapTimes :
          \E r \in {SnapshotGraph_add_snapshot(SnapObj, {<<1, 2>>}, start, end)} : SnapMutated(r)

SnapshotAddNodesFrom ==
    /\ cls = "SnapshotGraph"
    /\ Len(heap) + 2 <= MaxGraphs
    /\ \E start \in OptSnapTimes, end \in OptSnapTimes :
          \E r \in {SnapshotGraph_add_nodes_from(SnapObj, {3}, start, end)} : SnapMutated(r)

SnapshotAddEdgesFrom ==
    /\ cls = "SnapshotGraph"
    /\ Len(heap) + 2 <= MaxGraphs
    /\ \E start \in OptSnapTimes, end \in OptSnapTimes :
          \E r \in {SnapshotGraph_add_edges_from(SnapObj, {<<2, 4>>}, start, end)} : SnapMutated(r)

NextSnapshot == SnapshotAddSnapshot \/ SnapshotAddNodesFrom \/ SnapshotAddEdgesFrom

SpecSnapshot == InitSnapshot /\ [][NextSnapshot]_vars

\* The stored ranges are proper and no two of them overlap
DisjointRanges(S) ==
    /\ \A k \in DOMAIN S.snapshots : k[1] < k[2]
    /\ \A k1 \in DOMAIN S.snapshots, k2 \in DOMAIN S.snapshots :
          k1 # k2 => (k1[2] <= k2[1] \/ k2[2] <= k1[1])

\* The range k lies entirely outside [start, end)
Outside(k, start, end) == k[2] <= start \/ k[1] >= end

\* After a call that took S to T by interval [start, end): every snapshot
\* entirely outside keeps its key, its Graph object and the object's
\* content, and every key that is new is a proper part of a stored range
\* that was not outside.
FrameKept(S, T, start, end) ==
    /\ \A k \in DOMAIN S.snapshots :
          Outside(k, start, end) =>
             /\ k \in DOMAIN T.snapshots
             /\ T.snapshots[k] = S.snapshots[k]
             /\ T.heap[T.snapshots[k]] = S.heap[S.snapshots[k]]
    /\ \A k \in (DOMAIN T.snapshots) \ (DOMAIN S.snapshots) :
          /\ k[1] < k[2]
          /\ \E k0 \in DOMAIN S.snapshots :
                ~Outside(k0, start, end) /\ k0[1] <= k[1] /\ k[2] <= k0[2]

\* The SnapshotGraph with ranges (0, 3) and (3, 10) of the documentation
ExampleSnapshots ==
    SnapshotGraph_add_snapshot(
        SnapshotGraph_add_snapshot([snapshots |-> << >>, heap |-> << >>],
                                   {<<1, 2>>, <<1, 3>>}, 0, 3).g,
        {<<1, 4>>, <<1, 3>>}, 3, 10).g

\* C13: add_nodes_from and add_edges_from called by interval [start, end) on
\* a SnapshotGraph with proper, non-overlapping ranges leave every snapshot
\* entirely outside [start, end) with its key, its graph object and its
\* content, and create no entry for it; on ranges (0, 3), (3, 10) with
\* start=1, end=3 the keys become exactly (0, 1), (1, 3), (3, 10), the graph
\* of (0, 1) unmodified and the entry of (3, 10) untouched.
C13_OutsideSnapshotsUntouched ==
    /\ (cls = "SnapshotGraph" /\ DisjointRanges(SnapObj)) =>
          \A start \in SnapTimes, end \in SnapTimes :
              start < end =>
                 /\ FrameKept(SnapObj, SnapshotGraph_add_nodes_from(SnapObj, {3}, start, end).g,
                              start, end)
                 /\ FrameKept(SnapObj, SnapshotGraph_add_edges_from(SnapObj, {<<2, 4>>}, start, end).g,
                              start, end)
    /\ LET S == ExampleSnapshots
           T == SnapshotGraph_add_nodes_from(S, {5, 6, 7}, 1, 3).g
       IN /\ DOMAIN T.snapshots = {<<0, 1>>, <<1, 3>>, <<3, 10>>}
          /\ T.heap[T.snapshots[<<0, 1>>]] = S.heap[S.snapshots[<<0, 3>>]]
          /\ T.snapshots[<<3, 10>>] = S.snapshots[<<3, 10>>]
          /\ T.heap[T.snapshots[<<3, 10>>]] = S.heap[S.snapshots[<<3, 10>>]]

\* The parts into which the range k is cut at start and at end, where these
\* lie strictly inside it
Pieces(k, start, end) ==
    LET P == {k[1], k[2]} \cup {x \in {start, end} : k[1] < x /\ x < k[2]}
    IN {<<a, b>> \in P \X P : a < b /\ ~\E c \in P : a < c /\ c < b}

\* After a call that took S to T adding change by interval [start, end):
\* the keys are the parts of the stored ranges cut at start and end, and
\* each part holds the content of its range, with change added if the part
\* lies inside [start, end).
SplitAndAdded(S, T, change, start, end) ==
    /\ DOMAIN T.snapshots = UNION {Pieces(k, start, end) : k \in DOMAIN S.snapshots}
    /\ \A k \in DOMAIN S.snapshots :
          \A q \in Pieces(k, start, end) :
             q \in DOMAIN T.snapshots =>
                LET old == S.heap[S.snapshots[k]]
                    new == T.heap[T.snapshots[q]]
                IN IF Outside(q, start, end) THEN new = old
                   ELSE new = [nodes |-> old.nodes \cup change.nodes,
                               edges |-> old.edges \cup change.edges]

\* C14: add_nodes_from and add_edges_from called by interval [start, end) on
\* a SnapshotGraph with proper, non-overlapping ranges split every range
\* that has start or end strictly inside it at that point, add the
\* nodes/edges to the parts inside [start, end) and leave the graphs of the
\* parts outside as they were.
C14_PartialOverlapIsSplit ==
    (cls = "SnapshotGraph" /\ DisjointRanges(SnapObj)) =>
        \A start \in SnapTimes, end \in SnapTimes :
            start < end =>
               LET rn == SnapshotGraph_add_nodes_from(SnapObj, {3}, start, end)
                   re == SnapshotGraph_add_edges_from(SnapObj, {<<2, 4>>}, start, end)
               IN /\ SplitAndAdded(SnapObj, rn.g, [nodes |-> {3}, edges |-> {}], start, end)
                  /\ SplitAndAdded(SnapObj, re.g, NewGraph({<<2, 4>>}), start, end)

\* The stored ranges are proper and each begins where the one before ends
ConsecutiveRanges(S) ==
    LET keys == SnapKeys(S)
    IN /\ \A k \in DOMAIN S.snapshots : k[1] < k[2]
       /\ \A i \in 1..(Len(keys) - 1) : keys[i][2] = keys[i + 1][1]

\* C15: on a SnapshotGraph whose ranges are consecutive and non-overlapping,
\* get(start=s, end=e) with s < e raises nothing and returns, in key order,
\* exactly the graphs of the ranges that intersect [s, e).
C15_GetReturnsIntersecting ==
    (cls = "SnapshotGraph" /\ ConsecutiveRanges(SnapObj)) =>
        \A s \in SnapTimes, e \in SnapTimes :
            s < e =>
               LET r    == SnapshotGraph_get(SnapObj, s, e)
                   keys == SelectSeq(SnapKeys(SnapObj), LAMBDA k : k[1] < e /\ k[2] > s)
               IN /\ r.err = "none"
                  /\ r.ret = [i \in 1..Len(keys) |-> snapshots[keys[i]]]

\* ------------------------------------------------ ImpulseGraph.to_snapshots
\* ImpulseGraph.interval(): the first and the last key of the timestamp index
ImpulseGraph_interval(G) ==
    IF DOMAIN G.tree = {} THEN [err |-> "IndexError", ret |-> <<0, 0>>]
    ELSE [err |-> "none",
          ret |-> <<CHOOSE t \in DOMAIN G.tree : \A x \in DOMAIN G.tree : t <= x,
                    CHOOSE t \in DOMAIN G.tree : \A x \in DOMAIN G.tree : t >= x>>]

\* __search_tree(lo / k, hi / k, inclusive): the window bounds of to_snapshots
\* are fractions, kept here as numerators over the denominator k.
Impulse_search_tree_over(G, lo, hi, k, inclusive) ==
    IF lo > hi THEN [err |-> "NetworkXError", ret |-> << >>]
    ELSE [err |-> "none",
          ret |-> (IF lo = hi /\ \E t \in DOMAIN G.tree : t * k = lo
                   THEN BucketEdges(G.tree, <<CHOOSE t \in DOMAIN G.tree : t * k = lo>>)
                   ELSE << >>)
                  \o BucketEdges(G.tree,
                        SortedSeq({t \in DOMAIN G.tree :
                                     /\ IF inclusive[1] THEN lo <= t * k ELSE lo < t * k
                                     /\ IF inclusive[2] THEN t * k <= hi ELSE t * k < hi}))]

\* ImpulseGraph.to_subgraph(lo / k, hi / k, inclusive) with the data flags
\* off: the edges handed to Graph.add_edges_from and the Graph made of them
ImpulseGraph_to_subgraph(G, lo, hi, k, inclusive) ==
    Let1(Impulse_search_tree_over(G, lo, hi, k, inclusive), LAMBDA r :
       [err |-> r.err, iedges |-> r.ret,
        graph |-> {{r.ret[i][1], r.ret[i][2]} : i \in 1..Len(r.ret)}])

\* ImpulseGraph.to_snapshots(number_of_snapshots): the list of subgraphs.
\* length_of_snapshots is (end - begin) / number_of_snapshots.
ImpulseGraph_to_snapshots(G, number_of_snapshots) ==
    Let1(ImpulseGraph_interval(G), LAMBDA iv :
       IF iv.err # "none" THEN [err |-> iv.err, ret |-> << >>]
       ELSE IF number_of_snapshots < 2 THEN [err |-> "NetworkXError", ret |-> << >>]
       ELSE LET begin == iv.ret[1]
                end   == iv.ret[2]
                n     == number_of_snapshots
            IN [err |-> "none",
                ret |-> [j \in 1..n |->
                           ImpulseGraph_to_subgraph(G, begin * n + (end - begin) * (j - 1),
                                                    begin * n + (end - begin) * j, n,
                                                    IF j = n THEN <<TRUE, TRUE>>
                                                    ELSE <<TRUE, FALSE>>)]])

MaxSnapshots == 3
SnapshotCounts == 2..MaxSnapshots

\* C16: on a non-empty ImpulseGraph, to_snapshots(number_of_snapshots=k) with
\* k >= 2 returns k snapshots and every stored edge is among the edges of
\* exactly one of them.
C16_SnapshotsPartitionEdges ==
    (cls = "ImpulseGraph" /\ DOMAIN tree # {}) =>
        \A k \in SnapshotCounts :
            LET r == ImpulseGraph_to_snapshots(Obj, k)
            IN /\ r.err = "none"
               /\ Len(r.ret) = k
               /\ \A t \in DOMAIN tree : \A p \in tree[t] :
                     Cardinality({j \in 1..k :
                                    <<p[1], p[2], t>> \in SeqRange(r.ret[j].iedges)}) = 1

\* C17: on an interval graph remove_edge(u, v, begin, end, overlapping=False)
\* with begin < end raises nothing and leaves stored exactly the edges that
\* were stored before other than (u, v, begin, end).
C17_ExactRemoveOnlyThatEdge ==
    cls \in Interval =>
        \A u \in Nodes, v \in Nodes, b \in Times, e \in Times :
            b < e =>
               LET r == Interval_remove_edge(Obj, u, v, b, e, FALSE)
               IN /\ r.err = "none"
                  /\ StoredEdges(r.g) = StoredEdges(Obj) \ {<<u, v, b, e>>}

\* C18: on an impulse graph the windowed search with begin = end = t and
\* inclusive = (True, True) yields every stored edge stamped t exactly once
\* and yields no other edge.
C18_PointSearchYieldsOnce ==
    cls \in Impulse =>
        \A t \in Times :
            LET r == Impulse_search_tree(Obj, t, t, <<TRUE, TRUE>>)
            IN /\ r.err = "none"
               /\ \A ed \in StoredEdges(Obj) : ed[3] = t => Count(r.ret, ed) = 1
               /\ \A i \in 1..Len(r.ret) :
                      r.ret[i] \in StoredEdges(Obj) /\ r.ret[i][3] = t

\* ImpulseGraph.has_edge(u, v, begin, end, inclusive)
ImpulseGraph_has_edge(G, u, v, begin, end, inclusive) ==
    IF u \notin DOMAIN G.adj \/ v \notin DOMAIN G.adj[u] THEN [err |-> "none", ret |-> FALSE]
    ELSE IF begin = NoneV /\ end = NoneV THEN [err |-> "none", ret |-> TRUE]
    ELSE IF TruthyReversed(begin, end) THEN [err |-> "NetworkXError", ret |-> FALSE]
    ELSE [err |-> "none",
          ret |-> \E iv \in DOMAIN G.adj[u][v] : in_interval(iv[3], begin, end, inclusive)]

\* ImpulseDiGraph.has_edge(u, v, begin, end, inclusive)
ImpulseDiGraph_has_edge(G, u, v, begin, end, inclusive) ==
    IF u \notin DOMAIN G.pred \/ v \notin DOMAIN G.pred[u] THEN [err |-> "none", ret |-> FALSE]
    ELSE IF begin = NoneV /\ end = NoneV THEN [err |-> "none", ret |-> TRUE]
    ELSE IF TruthyReversed(begin, end) THEN [err |-> "NetworkXError", ret |-> FALSE]
    ELSE [err |-> "none",
          ret |-> \E iv \in DOMAIN G.pred[u][v] : in_interval(iv[3], begin, end, inclusive)]

\* The stored edge ed joins u and v (in this direction on a directed graph).
Joins(ed, u, v) ==
    \/ ed[1] = u /\ ed[2] = v
    \/ cls = "ImpulseGraph" /\ ed[1] = v /\ ed[2] = u

\* C19: on an impulse graph, when remove_edge(u, v, begin, end, inclusive=I)
\* returns for a window that is not reversed, has_edge(u, v, begin, end,
\* inclusive=I) on the result is False for each of the four flag pairs I, and
\* every edge between u and v stamped outside the window of begin, end and I
\* is still stored.
C19_RemovedWindowIsEmpty ==
    cls \in Impulse =>
        \A u \in Nodes, v \in Nodes, b \in OptTimes, e \in OptTimes, I \in Inclusives :
            LET r == Impulse_remove_edge(Obj, u, v, b, e, I)
                h == IF cls = "ImpulseGraph"
                     THEN ImpulseGraph_has_edge(r.g, u, v, b, e, I)
                     ELSE ImpulseDiGraph_has_edge(r.g, u, v, b, e, I)
            IN (r.err = "none" /\ ~GivenReversed(b, e)) =>
                  /\ h.err = "none" /\ ~h.ret
                  /\ \A ed \in StoredEdges(Obj) :
                        (Joins(ed, u, v) /\ ~in_interval(ed[3], b, e, I)) =>
                            ed \in StoredEdges(r.g)

\* IntervalGraph.interval()
IntervalGraph_interval(G) == <<G.tree.begin, G.tree.end>>

MinOf(S) == CHOOSE x \in S : \A y \in S : x <= y
MaxOf(S) == CHOOSE x \in S : \A y \in S : y <= x

\* C20: on an IntervalGraph that stores at least one edge, after any sequence
\* of add_edge and remove_edge calls that leaves only edges with begin < end,
\* interval() is (the least begin, the greatest end) of the stored edges.
C20_IntervalSpansStoredEdges ==
    (cls = "IntervalGraph" /\ StoredEdges(Obj) # {} /\ ProperIntervals(Obj)) =>
        IntervalGraph_interval(Obj) =
            <<MinOf({ed[3] : ed \in StoredEdges(Obj)}),
              MaxOf({ed[4] : ed \in StoredEdges(Obj)})>>

\* The (u, v) pairs of the stored edges stamped t.
PairsAt(G, t) == {<<ed[1], ed[2]>> : ed \in {x \in StoredEdges(G) : x[3] = t}}

\* C21: after any sequence of add_edge and remove_edge calls on an
\* ImpulseGraph, a timestamp is a key of the timestamp index iff a stored edge
\* carries it, and the bucket of each key is the set of (u, v) pairs of the
\* stored edges at that timestamp.
C21_IndexMatchesAdjacency ==
    cls = "ImpulseGraph" =>
        /\ DOMAIN tree = {ed[3] : ed \in StoredEdges(Obj)}
        /\ \A t \in DOMAIN tree : tree[t] = PairsAt(Obj, t)

\* ------------------------------------------------ IntervalGraph.remove_node
\* self.tree[begin:end] is a generator: IntervalTree.slice and
\* IntervalTree.query run only as far as the consumer asks, over the tree as
\* it is at that moment.  A suspended traversal is the stack of the query
\* frames, each <<node, position>> (0 before the left test, 1 before the
\* inInterval test, 2 before the right test), and the list iterator of
\* `yield from node.edges`: the node cur and the index idx of its next item.
RECURSIVE SliceNext(_, _, _, _, _, _)
\* next(generator): the edge yielded and the suspended traversal afterwards
SliceNext(T, stack, cur, idx, begin, end) ==
    IF cur # NIL
    THEN IF idx <= Len(T[cur].edges)
         THEN [done |-> FALSE, edge |-> T[cur].edges[idx],
               stack |-> stack, cur |-> cur, idx |-> idx + 1]
         ELSE SliceNext(T, stack, NIL, 0, begin, end)
    ELSE IF stack = << >>
    THEN [done |-> TRUE, edge |-> << >>, stack |-> stack, cur |-> NIL, idx |-> 0]
    ELSE LET n    == stack[Len(stack)][1]
             pos  == stack[Len(stack)][2]
             rest == SubSeq(stack, 1, Len(stack) - 1)
             l    == T[n].left
             r    == T[n].right
         IN IF pos = 0
            THEN IF l # NIL /\ T[l].max >= begin
                 THEN SliceNext(T, rest \o << <<n, 1>>, <<l, 0>> >>, NIL, 0, begin, end)
                 ELSE SliceNext(T, rest \o << <<n, 1>> >>, NIL, 0, begin, end)
            ELSE IF pos = 1
            THEN IF inInterval(T[n], begin, end)
                 THEN SliceNext(T, rest \o << <<n, 2>> >>, n, 1, begin, end)
                 ELSE SliceNext(T, rest \o << <<n, 2>> >>, NIL, 0, begin, end)
            ELSE IF r # NIL /\ T[n].low <= end /\ T[r].max >= begin
                 THEN SliceNext(T, rest \o << <<r, 0>> >>, NIL, 0, begin, end)
                 ELSE SliceNext(T, rest, NIL, 0, begin, end)

RECURSIVE RemoveWhileSlicing(_, _, _, _, _, _, _)
\* for iedge in iedges: if iedge[0] == n or iedge[1] == n: __remove_iedge(iedge)
RemoveWhileSlicing(G, n, stack, cur, idx, begin, end) ==
    Let1(SliceNext(G.tree.nodes, stack, cur, idx, begin, end), LAMBDA nx :
       IF nx.done THEN [g |-> G, err |-> "none"]
       ELSE IF nx.edge[1] = n \/ nx.edge[2] = n
       THEN Let1(IntervalGraph_remove_iedge(G, nx.edge), LAMBDA r :
               IF r.err # "none" THEN r
               ELSE RemoveWhileSlicing(r.g, n, nx.stack, nx.cur, nx.idx, begin, end))
       ELSE RemoveWhileSlicing(G, n, nx.stack, nx.cur, nx.idx, begin, end))

\* if len(self._adj[n]) == 0: drop n from _adj and _node
IntervalGraph_drop_if_bare(r, n) ==
    IF r.err # "none" THEN r
    ELSE IF n \notin DOMAIN r.g.adj THEN [g |-> r.g, err |-> "KeyError"]
    ELSE IF Len(r.g.adj[n]) = 0
    THEN [g |-> [r.g EXCEPT !.adj = DictDrop(@, n), !.node = DictDrop(@, n)],
          err |-> "none"]
    ELSE r

\* IntervalGraph.remove_node(n, begin, end)
IntervalGraph_remove_node(G, n, begin, end) ==
    IF n \notin DOMAIN G.node THEN [g |-> G, err |-> "none"]
    ELSE IF begin = NoneV /\ end = NoneV
    THEN IF n \notin DOMAIN G.adj THEN [g |-> G, err |-> "KeyError"]
         ELSE Let1(IntervalGraph_remove_all(G, OKeys(G.adj[n])), LAMBDA r :
                 IntervalGraph_drop_if_bare(r, n))
    ELSE IF G.tree.root = NIL
    THEN IntervalGraph_drop_if_bare([g |-> G, err |-> "none"], n)
    ELSE LET b == IF Falsy(begin) THEN G.tree.begin ELSE begin
             e == IF Falsy(end) THEN G.tree.end ELSE end
         IN Let1(RemoveWhileSlicing(G, n, << <<G.tree.root, 0>> >>, NIL, 0, b, e),
                 LAMBDA r : IntervalGraph_drop_if_bare(r, n))

\* C22: on an IntervalGraph (intervals with begin < end, no 0 among node
\* ids and begins), when remove_node(n, begin, end) with a window that is not
\* reversed returns, has_node(n, begin, end) is False on the result, no edge
\* has appeared, every edge not incident to n is still stored, and so is
\* every edge of n that has_node's window does not select.
C22_RemoveNodeClearsWindow ==
    (cls = "IntervalGraph" /\ ProperIntervals(Obj) /\ NoZeros(Obj)) =>
        \A n \in DOMAIN node_, b \in OptTimes \ {0}, e \in OptTimes \ {0} :
            LET r  == IntervalGraph_remove_node(Obj, n, b, e)
                h  == IntervalGraph_has_node(r.g, n, b, e)
                bb == IF b = NoneV THEN tree.begin ELSE b
                ee == IF e = NoneV THEN tree.end ELSE e
            IN (r.err = "none" /\ ~GivenReversed(b, e)) =>
                  /\ h.err = "none" /\ ~h.ret
                  /\ StoredEdges(r.g) \subseteq StoredEdges(Obj)
                  /\ \A ed \in StoredEdges(Obj) :
                        (ed \notin IncidentEdges(Obj, n)
                           \/ ~inInterval([low |-> ed[3], high |-> ed[4]], bb, ee)) =>
                            ed \in StoredEdges(r.g)

\* C23: on all four graph classes edges(u=n) without a window returns,
\* each once, exactly the stored edges that have n as an endpoint (as their
\* source on the directed classes), for every node identifier n, 0 included.
C23_EdgesOfNode ==
    \A n \in Nodes :
        LET r    == IF cls \in Interval THEN Interval_edges(Obj, n, NoneV, NoneV, NoneV)
                    ELSE Impulse_edges(Obj, n, NoneV, NoneV, NoneV, <<TRUE, TRUE>>)
            ofN  == {ed \in StoredEdges(Obj) :
                       ed[1] = n \/ (cls \in {"IntervalGraph", "ImpulseGraph"} /\ ed[2] = n)}
        IN /\ r.err = "none"
           /\ SeqRange(r.ret) = ofN
           /\ Len(r.ret) = Cardinality(ofN)

\* ------------------------------------- SnapshotGraph.insert with time given
\* SnapshotGraph.insert(graph, start, end, time), every argument optional.
\* With start, end and a falsy time all missing the test `start > end`
\* compares None with None: TypeError.
SnapshotGraph_insert_at(S, graph, start, end, time) ==
    IF ~Falsy(time) /\ (~Falsy(start) \/ ~Falsy(end)) THEN [g |-> S, err |-> "ValueError"]
    ELSE IF ~Falsy(time)
    THEN [g |-> [S EXCEPT !.snapshots = DictPut(@, <<time, time>>, graph)], err |-> "none"]
    ELSE IF (start = NoneV /\ end # NoneV) \/ (start # NoneV /\ end = NoneV)
    THEN [g |-> S, err |-> "ValueError"]
    ELSE IF start = NoneV /\ end = NoneV THEN [g |-> S, err |-> "TypeError"]
    ELSE SnapshotGraph_insert(S, graph, start, end)

\* SnapshotGraph.add_snapshot(ebunch, start=start, end=end, time=time)
SnapshotGraph_add_snapshot_at(S, ebunch, start, end, time) ==
    Let1([S EXCEPT !.heap = Append(@, NewGraph(ebunch))], LAMBDA S1 :
       IF ~Falsy(time) /\ (~Falsy(start) \/ ~Falsy(end)) THEN [g |-> S1, err |-> "ValueError"]
       ELSE IF ~Falsy(time)
       THEN SnapshotGraph_insert_at(S1, Len(S1.heap), NoneV, NoneV, time)
       ELSE IF (start = NoneV /\ end # NoneV) \/ (start # NoneV /\ end = NoneV)
       THEN [g |-> S1, err |-> "ValueError"]
       ELSE SnapshotGraph_insert_at(S1, Len(S1.heap), start, end, NoneV))

\* The object once a Graph built by the caller sits on the heap
WithGraph == [SnapObj EXCEPT !.heap = Append(@, NewGraph({<<1, 2>>}))]

\* C24: SnapshotGraph.insert raises ValueError and leaves the snapshot map
\* as it was whenever time is given together with start or end, and whenever
\* exactly one of start and end is given, for all values, 0 included.
C24_InsertRejectsMixedArguments ==
    cls = "SnapshotGraph" =>
        \A start \in OptSnapTimes, end \in OptSnapTimes, time \in OptSnapTimes :
            LET r == SnapshotGraph_insert_at(WithGraph, Len(WithGraph.heap), start, end, time)
            IN (\/ time # NoneV /\ (start # NoneV \/ end # NoneV)
                \/ (start = NoneV) # (end = NoneV)) =>
                  r.err = "ValueError" /\ r.g.snapshots = snapshots

\* C25: SnapshotGraph.insert(graph, time=t) and add_snapshot(ebunch, time=t)
\* raise nothing and store the graph under the key (t, t), leaving the other
\* keys as they were, for every timestamp t, 0 included.
C25_TimeStoresDegenerateKey ==
    cls = "SnapshotGraph" =>
        \A t \in SnapTimes :
            LET r == SnapshotGraph_insert_at(WithGraph, Len(WithGraph.heap), NoneV, NoneV, t)
                a == SnapshotGraph_add_snapshot_at(SnapObj, {<<1, 2>>}, NoneV, NoneV, t)
            IN /\ r.err = "none" /\ a.err = "none"
               /\ r.g.snapshots = DictPut(snapshots, <<t, t>>, Len(WithGraph.heap))
               /\ a.g.snapshots = DictPut(snapshots, <<t, t>>, Len(heap) + 1)
               /\ a.g.heap[Len(heap) + 1] = NewGraph({<<1, 2>>})

\* ------------------------------------------- to_snapshots: argument checks
\* The two optional arguments default to False; NoneV stands for "left out".
MaxCount == 3
OptCounts == 0..MaxCount \cup {NoneV}

\* A check that would let a single snapshot through.
to_snapshots_count_from_one(iv, number_of_snapshots, length_of_snapshots) ==
    IF number_of_snapshots = NoneV /\ length_of_snapshots = NoneV
    THEN [err |-> "NetworkXError", n |-> 0]
    ELSE IF number_of_snapshots # NoneV /\ length_of_snapshots # NoneV
    THEN [err |-> "NetworkXError", n |-> 0]
    ELSE IF iv.err # "none" THEN [err |-> iv.err, n |-> 0]
    ELSE IF length_of_snapshots = NoneV
    THEN IF number_of_snapshots < 1 THEN [err |-> "NetworkXError", n |-> 0]
         ELSE [err |-> "none", n |-> number_of_snapshots]
    ELSE IF length_of_snapshots = 0 THEN [err |-> "ZeroDivisionError", n |-> 0]
    ELSE IF iv.ret[1] = PosInf \/ iv.ret[2] = NegInf THEN [err |-> "NetworkXError", n |-> 0]
    ELSE LET span == iv.ret[2] - iv.ret[1]
             n    == (span \div length_of_snapshots)
                     + (IF span % length_of_snapshots # 0 THEN 1 ELSE 0)
         IN IF n < 1 THEN [err |-> "NetworkXError", n |-> 0]
            ELSE [err |-> "none", n |-> n]

\* IntervalGraph.to_snapshots / ImpulseGraph.to_snapshots from their first
\* statement to their last raise, iv being what self.interval() gives: the
\* error raised, or the number of snapshots resolved.  On an empty
\* IntervalGraph interval() is (inf, -inf) and the number derived from a
\* length is a float nan, which is not an int.
to_snapshots_count(iv, number_of_snapshots, length_of_snapshots) ==
    IF number_of_snapshots = NoneV /\ length_of_snapshots = NoneV
    THEN [err |-> "NetworkXError", n |-> 0]
    ELSE IF number_of_snapshots # NoneV /\ length_of_snapshots # NoneV
    THEN [err |-> "NetworkXError", n |-> 0]
    ELSE IF iv.err # "none" THEN [err |-> iv.err, n |-> 0]
    ELSE IF length_of_snapshots = NoneV
    THEN IF number_of_snapshots < 2 THEN [err |-> "NetworkXError", n |-> 0]
         ELSE [err |-> "none", n |-> number_of_snapshots]
    ELSE IF length_of_snapshots = 0 THEN [err |-> "ZeroDivisionError", n |-> 0]
    ELSE IF iv.ret[1] = PosInf \/ iv.ret[2] = NegInf THEN [err |-> "NetworkXError", n |-> 0]
    ELSE LET span == iv.ret[2] - iv.ret[1]
             n    == (span \div length_of_snapshots)
                     + (IF span % length_of_snapshots # 0 THEN 1 ELSE 0)
         IN IF n < 2 THEN [err |-> "NetworkXError", n |-> 0]
            ELSE [err |-> "none", n |-> n]

\* ImpulseGraph.to_snapshots(number_of_snapshots, length_of_snapshots)
ImpulseGraph_to_snapshots_by(G, number_of_snapshots, length_of_snapshots) ==
    Let1(to_snapshots_count(ImpulseGraph_interval(G), number_of_snapshots,
                            length_of_snapshots), LAMBDA c :
       IF c.err # "none" THEN [err |-> c.err, ret |-> << >>]
       ELSE IF length_of_snapshots = NoneV THEN ImpulseGraph_to_snapshots(G, c.n)
       ELSE LET begin == ImpulseGraph_interval(G).ret[1]
            IN [err |-> "none",
                ret |-> [j \in 1..c.n |->
                           ImpulseGraph_to_subgraph(G, begin + length_of_snapshots * (j - 1),
                                                    begin + length_of_snapshots * j, 1,
                                                    IF j = c.n THEN <<TRUE, TRUE>>
                                                    ELSE <<TRUE, FALSE>>)]])

\* IntervalGraph.to_snapshots up to its last raise
IntervalGraph_to_snapshots_count(G, number_of_snapshots, length_of_snapshots) ==
    to_snapshots_count([err |-> "none", ret |-> IntervalGraph_interval(G)],
                       number_of_snapshots, length_of_snapshots)

\* The least c with c * length >= end - begin
CountFor(span, length) == CHOOSE c \in 0..span : c * length >= span /\ (c = 0 \/ (c - 1) * length < span)

\* C26: to_snapshots of an IntervalGraph or ImpulseGraph raises an error, and
\* so returns no snapshot, when neither or both of number_of_snapshots and
\* length_of_snapshots are given, when the number given is less than 2, and
\* when the number derived from a positive length over a non-empty graph is
\* less than 2.
C26_ToSnapshotsRejects ==
    cls \in {"IntervalGraph", "ImpulseGraph"} =>
        \A number \in OptCounts, length \in OptCounts :
            LET iv   == IF cls = "ImpulseGraph" THEN ImpulseGraph_interval(Obj)
                        ELSE [err |-> "none", ret |-> IntervalGraph_interval(Obj)]
                bad  == \/ (number = NoneV) = (length = NoneV)
                        \/ length = NoneV /\ number < 2
                        \/ /\ number = NoneV /\ length > 0
                           /\ iv.err = "none" /\ iv.ret[1] <= iv.ret[2]
                           /\ CountFor(iv.ret[2] - iv.ret[1], length) < 2
            IN bad =>
                 IF cls = "ImpulseGraph"
                 THEN LET r == ImpulseGraph_to_snapshots_by(Obj, number, length)
                      IN r.err # "none" /\ r.ret = << >>
                 ELSE IntervalGraph_to_snapshots_count(Obj, number, length).err # "none"

\* An ImpulseGraph spanning two time units: a length of 3 resolves to one
\* snapshot and is refused, a length of 1 to two snapshots, which are returned.
C26_Witness ==
    /\ cls = "ImpulseGraph"
    /\ ImpulseGraph_interval(Obj) = [err |-> "none", ret |-> <<0, 2>>]
    /\ ImpulseGraph_to_snapshots_by(Obj, NoneV, 3).err = "NetworkXError"
    /\ ImpulseGraph_to_snapshots_by(Obj, 1, NoneV).err = "NetworkXError"
    /\ Len(ImpulseGraph_to_snapshots_by(Obj, NoneV, 1).ret) = 2

\* --------------------------------------------------- what a query leaves
\* The query methods of the four temporal graphs (edges, has_edge, nodes,
\* has_node, number_of_nodes, degree, interval, to_subgraph) contain no
\* statement that writes to self: they are the operators above, which have a
\* value and no successor object.  SnapshotGraph.get runs _get, which does
\* write to self.snapshots on its split_overlaps paths.

\* A get that would ask _get to split the ranges it cuts.
SnapshotGraph_after_get_splitting(S, start, end) ==
    SnapshotGraph_get_(S, start, end, TRUE).g

\* The object after SnapshotGraph.get(start=start, end=end) has run _get
SnapshotGraph_after_get(S, start, end) ==
    SnapshotGraph_get_(S, start, end, FALSE).g

MaxTreeTime == 4
MaxTreeAdds == 4
TreeTimes == 1..MaxTreeTime
\* The node pairs whose edges are added and removed
TreePairs == {<<1, 2>>, <<1, 3>>}

InitTree ==
    /\ cls = "IntervalGraph"
    /\ node_ = << >>
    /\ adj = << >>
    /\ pred = << >>
    /\ succ = << >>
    /\ heap = << >>
    /\ tree = EmptyTree
    /\ snapshots = << >>
    /\ call = << >>

\* G.add_edge(u, v, begin, end)
TreeAddEdge ==
    /\ cls = "IntervalGraph"
    /\ Len(heap) < MaxTreeAdds
    /\ \E p \in TreePairs, begin \in TreeTimes, end \in TreeTimes :
          /\ begin < end
          /\ \E r \in {IntervalGraph_add_edge(Obj, p[1], p[2], begin, end, EmptyDict)} : Mutated(r)

\* G.remove_edge(u, v, begin, end)
TreeRemoveEdge ==
    /\ cls = "IntervalGraph"
    /\ \E p \in TreePairs, begin \in TreeTimes, end \in TreeTimes :
          /\ begin < end
          /\ \E r \in {IntervalGraph_remove_edge(Obj, p[1], p[2], begin, end, TRUE)} : Mutated(r)

NextTree == TreeAddEdge \/ TreeRemoveEdge

SpecTree == InitTree /\ [][NextTree]_vars

RECURSIVE SubtreeKeys(_, _)
\* The keys of the nodes reachable from node n by left and right
SubtreeKeys(T, n) ==
    IF n = NIL THEN {}
    ELSE {n} \cup SubtreeKeys(T, T[n].left) \cup SubtreeKeys(T, T[n].right)

\* The edges held by the nodes reachable from the root
ReachableEdges(tr) ==
    UNION {SeqRange(tr.nodes[k].edges) : k \in SubtreeKeys(tr.nodes, tr.root)}

\* C28: after any sequence of IntervalGraph add_edge and remove_edge calls
\* the edges held by the tree nodes reachable from the root are exactly the
\* edges of the adjacency map, and each stored edge is among the edges that
\* edges(begin, end) returns for its own interval.
C28_TreeHoldsStoredEdges ==
    cls = "IntervalGraph" =>
        /\ ReachableEdges(tree) = StoredEdges(Obj)
        /\ \A ed \in StoredEdges(Obj) :
              ed \in SeqRange(IntervalGraph_edges(Obj, NoneV, NoneV, ed[3], ed[4]).ret)

RECURSIVE TrueHeight(_, _)
\* The number of nodes on the longest path from node n down to a leaf
TrueHeight(T, n) ==
    IF n = NIL THEN 0
    ELSE 1 + Max2(TrueHeight(T, T[n].left), TrueHeight(T, T[n].right))

\* No bucket of the tree has been emptied: the tree was built by add alone.
OnlyAdded(tr) == \A k \in DOMAIN tr.nodes : tr.nodes[k].edges # << >>

\* C29: in a tree built by IntervalTree.add alone, every node reachable from
\* the root has height(left) - height(right) in {-1, 0, 1}, the height of a
\* subtree being the number of nodes on its longest downward path.
C29_TreeIsBalanced ==
    (cls = "IntervalGraph" /\ OnlyAdded(tree)) =>
        \A k \in SubtreeKeys(tree.nodes, tree.root) :
            TrueHeight(tree.nodes, tree.nodes[k].left)
              - TrueHeight(tree.nodes, tree.nodes[k].right) \in {-1, 0, 1}

\* C30: after every IntervalTree add and remove, every node reachable from
\* the root has max equal to the largest high among its own key and the keys
\* of the nodes of its left and right subtrees.
C30_MaxIsSubtreeMax ==
    cls = "IntervalGraph" =>
        \A k \in SubtreeKeys(tree.nodes, tree.root) :
            tree.nodes[k].max = MaxOf({x[2] : x \in SubtreeKeys(tree.nodes, k)})

\* A tree whose root has a left and a right child after an edge was removed,
\* and where some node takes its max from its left subtree.
C30_Witness ==
    /\ cls = "IntervalGraph"
    /\ ~OnlyAdded(tree)
    /\ tree.root # NIL
    /\ tree.nodes[tree.root].left # NIL /\ tree.nodes[tree.root].right # NIL
    /\ \E k \in SubtreeKeys(tree.nodes, tree.root) :
          /\ tree.nodes[k].left # NIL
          /\ tree.nodes[k].max = tree.nodes[tree.nodes[k].left].max
          /\ tree.nodes[k].max > k[2]
          /\ \A x \in SubtreeKeys(tree.nodes, tree.nodes[k].right) : x[2] < tree.nodes[k].max

\* ------------------------------------------------------------ search order
RECURSIVE InOrderKeys(_, _)
\* IntervalTree.inOrder(root): the node keys in the order they are yielded
InOrderKeys(T, n) ==
    IF n = NIL THEN << >>
    ELSE InOrderKeys(T, T[n].left) \o <<n>> \o InOrderKeys(T, T[n].right)

\* (low, high) pairs in lexicographic order
LexLess(a, b) == a[1] < b[1] \/ (a[1] = b[1] /\ a[2] < b[2])

\* C31: after every IntervalTree add and remove, the in-order walk from the
\* root visits the node keys in strictly increasing lexicographic (low, high)
\* order; in particular no key is visited twice.
C31_InOrderIsSorted ==
    (cls = "IntervalGraph" /\ tree.root # NIL) =>
        LET w == InOrderKeys(tree.nodes, tree.root)
        IN \A i \in 1..(Len(w) - 1) : LexLess(w[i], w[i + 1])

\* A tree of at least three reachable nodes, with a left and a right child at
\* the root, from which a node was unlinked after its bucket emptied.
C31_Witness ==
    /\ cls = "IntervalGraph"
    /\ tree.root # NIL
    /\ tree.nodes[tree.root].left # NIL /\ tree.nodes[tree.root].right # NIL
    /\ Len(InOrderKeys(tree.nodes, tree.root)) >= 3
    /\ \E k \in DOMAIN tree.nodes :
          /\ tree.nodes[k].edges = << >>
          /\ k \notin SubtreeKeys(tree.nodes, tree.root)

\* ------------------------------------------------- __enumerate_subgraphs
\* One run of the generator __enumerate_subgraphs(g, size_k), step by step.
\* call.stack holds the frames of the nested __extend_subgraph generators,
\* innermost last; call.out is the list of node sets yielded so far.
\* random.choice may return any element of v_extension.
MaxEnumNode == 4
MaxSizeK == 4
EnumNodes == 1..MaxEnumNode
StaticGraphs == SUBSET {e \in EnumNodes \X EnumNodes : e[1] < e[2]}

InitEnum ==
    /\ cls = "enumerate_subgraphs"
    /\ node_ = << >>
    /\ adj = << >>
    /\ pred = << >>
    /\ succ = << >>
    /\ heap = << >>
    /\ tree = << >>
    /\ snapshots = << >>
    /\ \E g \in StaticGraphs, size_k \in 1..MaxSizeK :
          call = [g |-> g, size_k |-> size_k, seeds |-> SetToSeq(StaticNodes(g)),
                  stack |-> << >>, out |-> << >>]

EnumFrame == UNCHANGED <<cls, node_, adj, pred, succ, heap, tree, snapshots>>

\* The innermost generator
Top == call.stack[Len(call.stack)]
Pop == SubSeq(call.stack, 1, Len(call.stack) - 1)

\* for v in g.nodes(): v_extension = {x in g.neighbors(v) : x > v};
\* __extend_subgraph({v}, v_extension, v, g, size_k) is entered
EnumSeed ==
    /\ cls = "enumerate_subgraphs"
    /\ call.stack = << >>
    /\ call.seeds # << >>
    /\ LET v == Head(call.seeds)
       IN call' = [call EXCEPT
             !.seeds = Tail(@),
             !.stack = <<[v_subgraph |-> {v},
                          v_extension |-> {x \in neighbors(call.g, v) : x > v},
                          v |-> v]>>]
    /\ EnumFrame

\* if len(v_subgraph) == size_k: yield g.subgraph(v_subgraph)
EnumYield ==
    /\ cls = "enumerate_subgraphs"
    /\ call.stack # << >>
    /\ Cardinality(Top.v_subgraph) = call.size_k
    /\ call' = [call EXCEPT !.out = Append(@, Top.v_subgraph), !.stack = Pop]
    /\ EnumFrame

\* An extension that would keep the neighbours above w instead of above v.
Extension_above_w(g, w, v_subgraph, v) == {x \in neighbors(g, w) \ v_subgraph : x > w}

\* set(filter(lambda x: x > v, set(g.neighbors(w)) - v_subgraph))
Extension(g, w, v_subgraph, v) == {x \in neighbors(g, w) \ v_subgraph : x > v}

\* One round of `while len(v_extension) != 0`: w is chosen and removed, and
\* the generator for v_subgraph with w is entered.
EnumExtend ==
    /\ cls = "enumerate_subgraphs"
    /\ call.stack # << >>
    /\ Cardinality(Top.v_subgraph) # call.size_k
    /\ \E w \in Top.v_extension :
          LET ext1 == Top.v_extension \ {w}
              v2_extension == ext1 \cup Extension(call.g, w, Top.v_subgraph, Top.v)
          IN call' = [call EXCEPT
                !.stack = Append([@ EXCEPT ![Len(@)].v_extension = ext1],
                                 [v_subgraph |-> Top.v_subgraph \cup {w},
                                  v_extension |-> v2_extension,
                                  v |-> Top.v])]
    /\ EnumFrame

\* The while loop ends on an empty v_extension: the generator is exhausted
EnumReturn ==
    /\ cls = "enumerate_subgraphs"
    /\ call.stack # << >>
    /\ Cardinality(Top.v_subgraph) # call.size_k
    /\ Top.v_extension = {}
    /\ call' = [call EXCEPT !.stack = Pop]
    /\ EnumFrame

NextEnum == EnumSeed \/ EnumYield \/ EnumExtend \/ EnumReturn

SpecEnum == InitEnum /\ [][NextEnum]_vars

\* The enumeration has run to its end
EnumDone == cls = "enumerate_subgraphs" /\ call.stack = << >> /\ call.seeds = << >>

RECURSIVE ReachedWithin(_, _, _)
\* The nodes of S joined to the nodes R by edges of g between nodes of S
ReachedWithin(g, S, R) ==
    LET more == {x \in S \ R : \E y \in R : x \in neighbors(g, y)}
    IN IF more = {} THEN R ELSE ReachedWithin(g, S, R \cup more)

\* The connected node subsets of g with k nodes
ConnectedSubsets(g, k) ==
    {S \in SUBSET StaticNodes(g) :
        /\ Cardinality(S) = k
        /\ \A x \in S : ReachedWithin(g, S, {x}) = S}

\* C32: whatever w random.choice returns, no node set is yielded twice by
\* __enumerate_subgraphs.
C32_EachSubsetOnce ==
    cls = "enumerate_subgraphs" =>
        \A i \in 1..Len(call.out), j \in 1..Len(call.out) :
            i # j => call.out[i] # call.out[j]

\* An ImpulseDiGraph whose static graph is g: each pair is an edge in both
\* directions, at times that differ from pair to pair.
TemporalOf(g) ==
    LET pairs == SetToSeq(g)
    IN AddAll([node |-> << >>, adj |-> << >>, pred |-> << >>, succ |-> << >>,
               heap |-> << >>, tree |-> << >>],
              FlattenSeq([i \in 1..Len(pairs) |->
                 << <<pairs[i][1], pairs[i][2], pairs[i][1] + pairs[i][2]>>,
                    <<pairs[i][2], pairs[i][1], pairs[i][1] + pairs[i][2] + 1>> >>]))

\* The motif on k nodes counted on it: a self-loop, an edge, a path
PathMotif(k) ==
    IF k = 1 THEN << <<1, 1>> >>
    ELSE [i \in 1..(k - 1) |-> <<i, i + 1>>]

MaxEnumDelta == 8

\* C33: whatever w random.choice returns, the node sets yielded by a finished
\* run of __enumerate_subgraphs are all the connected size_k-node subsets of g
\* and nothing else, so the counts count_temporal_motif collects over them are
\* those collected over the connected subsets.
C33_SameSetForAnyChoices ==
    EnumDone =>
        /\ SeqRange(call.out) = ConnectedSubsets(call.g, call.size_k)
        /\ LET G == TemporalOf(call.g)
               sequence == PathMotif(call.size_k)
           IN TotalCounts(G, call.out, sequence, MaxEnumDelta, << >>)
                = TotalCounts(G, SetToSeq(ConnectedSubsets(call.g, call.size_k)),
                              sequence, MaxEnumDelta, << >>)

\* A finished run on a graph where the choices matter: three-node subsets,
\* one of them yielded more than once.
C33_Witness ==
    /\ EnumDone
    /\ call.size_k = 3
    /\ Cardinality(SeqRange(call.out)) >= 3
    /\ Len(call.out) > Cardinality(SeqRange(call.out))

\* ------------------------------------------------------- node identifiers
\* The ways of renaming the nodes: one-to-one maps from Nodes to identifiers
Relabelings ==
    {f \in [Nodes -> 0..(MaxNode + 1)] : \A a \in Nodes, b \in Nodes : f[a] = f[b] => a = b}

\* The ImpulseDiGraph with the edges of G, every node n renamed f[n]
Relabelled(G, f) ==
    AddAll([node |-> << >>, adj |-> << >>, pred |-> << >>, succ |-> << >>,
            heap |-> << >>, tree |-> << >>],
           SetToSeq({<<f[ed[1]], f[ed[2]], ed[3]>> : ed \in StoredEdges(G)}))

\* A node tuple renamed
RenamedKey(f, k) == [i \in 1..Len(k) |-> f[k[i]]]

\* C34: count_temporal_motif accepts a full-length node tuple with non-zero
\* count iff the motif's positions map one-to-one onto its nodes, whatever
\* values name the nodes: renaming the nodes of the graph renames the tuples
\* of the mapping returned and leaves their counts and the total unchanged.
C34_AcceptanceIgnoresLabels ==
    cls = "ImpulseDiGraph" =>
        \A sequence \in Motifs, delta \in Deltas :
            LET r == count_temporal_motif(Obj, sequence, delta, TRUE)
            IN \A f \in Relabelings :
                  LET r2 == count_temporal_motif(Relabelled(Obj, f), sequence, delta, TRUE)
                  IN /\ r2.total = r.total
                     /\ DOMAIN r2.counts = {RenamedKey(f, k) : k \in DOMAIN r.counts}
                     /\ \A k \in DOMAIN r.counts : r2.counts[RenamedKey(f, k)] = r.counts[k]

\* ------------------------------------------------------ the two-pointer sweep
\* The loop `while end < len(edges)` of count_temporal_motif over the edges of
\* one subgraph, one step per call of __decrement_counts and of
\* __increment_counts.  start and end count from 1 here.
MaxSweepTime == 4
MaxSweepEdges == 5
SweepEdges == {<<1, 2>>, <<2, 1>>, <<2, 3>>} \X (1..MaxSweepTime)
SweepLengths == {2, 3, 4}

InitSweep ==
    /\ cls = "count_temporal_motif"
    /\ node_ = << >>
    /\ adj = << >>
    /\ pred = << >>
    /\ succ = << >>
    /\ heap = << >>
    /\ tree = << >>
    /\ snapshots = << >>
    /\ \E E \in SUBSET SweepEdges, delta \in Deltas, motif_length \in SweepLengths :
          /\ Cardinality(E) <= MaxSweepEdges
          /\ call = [edges |-> SortedByTime({<<x[1][1], x[1][2], x[2]>> : x \in E}),
                     start |-> 1, end |-> 1, counts |-> << >>,
                     delta |-> delta, motif_length |-> motif_length, after |-> "start"]

\* while edges[start][2] + delta < edges[end][2]
SweepTooOld ==
    call.edges[call.start][3] + call.delta < call.edges[call.end][3]

\* One round of the inner while loop: the edges stamped edges[start][2] leave
SweepDecrement ==
    /\ cls = "count_temporal_motif"
    /\ call.end <= Len(call.edges)
    /\ SweepTooOld
    /\ call' = [call EXCEPT
          !.start = SameTimeEnd(call.edges, call.start) + 1,
          !.counts = decrement_counts(SameTimeEdges(call.edges, call.start),
                                      call.motif_length, call.counts),
          !.after = "decrement"]
    /\ EnumFrame

\* The rest of the loop body: the edges stamped edges[end][2] enter
SweepIncrement ==
    /\ cls = "count_temporal_motif"
    /\ call.end <= Len(call.edges)
    /\ ~SweepTooOld
    /\ call' = [call EXCEPT
          !.end = SameTimeEnd(call.edges, call.end) + 1,
          !.counts = increment_counts(SameTimeEdges(call.edges, call.end),
                                      call.motif_length, call.counts),
          !.after = "increment"]
    /\ EnumFrame

NextSweep == SweepDecrement \/ SweepIncrement

SpecSweep == InitSweep /\ [][NextSweep]_vars

\* The edges between the two pointers
Between == {call.edges[i] : i \in call.start..(call.end - 1)}

\* The number of sequences of edges of E with strictly increasing timestamps
\* whose node pairs, in order, make up key
SequencesOf(E, key) ==
    Cardinality({q \in [1..(Len(key) \div 2) -> E] :
                    /\ \A i \in 1..(Len(q) - 1) : q[i][3] < q[i + 1][3]
                    /\ KeyOf(q) = key})

\* C35: after each __increment_counts of the sweep no count is negative, and
\* the count of every key shorter than the motif is the number of strictly
\* time-increasing sequences of that node-pair pattern among the edges
\* between start and end.
C35_CountsMatchWindow ==
    (cls = "count_temporal_motif" /\ call.after = "increment") =>
        /\ \A k \in DOMAIN call.counts : call.counts[k] >= 0
        /\ \A k \in DOMAIN call.counts :
              Len(k) < 2 * call.motif_length =>
                  call.counts[k] = SequencesOf(Between, k)

\* The window has slid: edges have left it, edges remain in it, and a
\* two-edge sequence shorter than the motif is counted in it.
C35_Witness ==
    /\ cls = "count_temporal_motif"
    /\ call.after = "increment"
    /\ call.motif_length = 3
    /\ call.start > 1
    /\ call.end - call.start >= 2
    /\ \E k \in DOMAIN call.counts : Len(k) = 4 /\ call.counts[k] > 0

\* ------------------------------------------------ ImpulseGraph.remove_node
\* The edges the loop over __search_tree collects: those with n at an end
Impulse_incident(iedges, n) ==
    SelectSeq(iedges, LAMBDA edge : edge[1] = n \/ edge[2] = n)

\* ImpulseGraph.remove_node(n, begin, end, inclusive)
ImpulseGraph_remove_node(G, n, begin, end, inclusive) ==
    IF n \notin DOMAIN G.node THEN [g |-> G, err |-> "none"]
    ELSE IF begin = NoneV /\ end = NoneV
    THEN LET a1 == DictDrop(G.adj, n)
             a2 == [v \in DOMAIN a1 |-> DictDrop(a1[v], n)]
         IN [g |-> [G EXCEPT !.adj = a2, !.node = DictDrop(@, n)], err |-> "none"]
    ELSE Let1(Impulse_search_tree(G, begin, end, inclusive), LAMBDA found :
         IF found.err # "none" THEN [g |-> G, err |-> found.err]
         ELSE Let1(ImpulseGraph_remove_all(G, Impulse_incident(found.ret, n)), LAMBDA G1 :
              IF n \notin DOMAIN G1.adj \/ DOMAIN G1.adj[n] = {}
              THEN [g |-> [G1 EXCEPT !.adj = DictDrop(@, n), !.node = DictDrop(@, n)],
                    err |-> "none"]
              ELSE [g |-> G1, err |-> "none"]))

RECURSIVE Impulse_tree_remove_all(_, _)
\* ImpulseGraph.__remove_iedge on an object without _adj: the pair leaves the
\* timestamp bucket, then the AttributeError is swallowed by the bare except.
Impulse_tree_remove_all(tr, ivs) ==
    IF ivs = << >> THEN tr
    ELSE LET iedge == Head(ivs)
             t == iedge[3]
         IN Impulse_tree_remove_all(
               IF t \in DOMAIN tr THEN [tr EXCEPT ![t] = @ \ {<<iedge[1], iedge[2]>>}] ELSE tr,
               Tail(ivs))

\* ImpulseDiGraph inherits remove_node from ImpulseGraph; its __init__ sets
\* _pred and _succ and no _adj, so every read of self._adj raises.
ImpulseDiGraph_remove_node(G, n, begin, end, inclusive) ==
    IF n \notin DOMAIN G.node THEN [g |-> G, err |-> "none"]
    ELSE IF begin = NoneV /\ end = NoneV THEN [g |-> G, err |-> "AttributeError"]
    ELSE Let1(Impulse_search_tree(G, begin, end, inclusive), LAMBDA found :
         IF found.err # "none" THEN [g |-> G, err |-> found.err]
         ELSE [g |-> [G EXCEPT !.tree =
                         Impulse_tree_remove_all(@, Impulse_incident(found.ret, n))],
               err |-> "AttributeError"])

RECURSIVE FirstIncident(_, _, _, _, _, _, _)
\* The first edge with n at an end that the slice yields, or NIL
FirstIncident(T, n, stack, cur, idx, begin, end) ==
    Let1(SliceNext(T, stack, cur, idx, begin, end), LAMBDA nx :
       IF nx.done THEN NIL
       ELSE IF nx.edge[1] = n \/ nx.edge[2] = n THEN nx.edge
       ELSE FirstIncident(T, n, nx.stack, nx.cur, nx.idx, begin, end))

\* IntervalDiGraph inherits remove_node from IntervalGraph and has no _adj
\* either.  With a window, IntervalGraph.__remove_iedge takes the first
\* incident edge out of the tree before it reads self._adj.
IntervalDiGraph_remove_node(G, n, begin, end) ==
    IF n \notin DOMAIN G.node THEN [g |-> G, err |-> "none"]
    ELSE IF begin = NoneV /\ end = NoneV THEN [g |-> G, err |-> "AttributeError"]
    ELSE IF G.tree.root = NIL THEN [g |-> G, err |-> "AttributeError"]
    ELSE LET b == IF Falsy(begin) THEN G.tree.begin ELSE begin
             e == IF Falsy(end) THEN G.tree.end ELSE end
         IN Let1(FirstIncident(G.tree.nodes, n, << <<G.tree.root, 0>> >>, NIL, 0, b, e),
                 LAMBDA first :
            IF first = NIL THEN [g |-> G, err |-> "AttributeError"]
            ELSE Let1(IntervalTree_remove(G.tree, first), LAMBDA rm :
                    [g |-> [G EXCEPT !.tree = rm.tree],
                     err |-> IF rm.err # "none" THEN rm.err ELSE "AttributeError"]))

\* An ImpulseGraph built and changed by add_edge, remove_edge and remove_node
InitNode ==
    /\ cls = "ImpulseGraph"
    /\ node_ = << >>
    /\ adj = << >>
    /\ pred = << >>
    /\ succ = << >>
    /\ heap = << >>
    /\ tree = << >>
    /\ snapshots = << >>
    /\ call = << >>

\* The inclusive pairs remove_node is called with: its default and one other
NodeInclusives == {<<TRUE, FALSE>>, <<TRUE, TRUE>>}

\* G.add_edge(u, v, t)
NodeAddEdge ==
    \E u \in Nodes, v \in Nodes, t \in Times : ImpulseGraphAddEdge(u, v, t, EmptyDict)

\* G.remove_edge(u, v, begin, end)
NodeRemoveEdge ==
    \E u \in Nodes, v \in Nodes, begin \in OptTimes, end \in OptTimes :
        ImpulseGraphRemoveEdge(u, v, begin, end, <<TRUE, FALSE>>)

\* G.remove_node(n, begin, end, inclusive)
NodeRemoveNode ==
    /\ cls = "ImpulseGraph"
    /\ \E n \in Nodes, begin \in OptTimes, end \in OptTimes, inclusive \in NodeInclusives :
          \E r \in {ImpulseGraph_remove_node(Obj, n, begin, end, inclusive)} : Mutated(r)

NextNode == NodeAddEdge \/ NodeRemoveEdge \/ NodeRemoveNode

SpecNode == InitNode /\ [][NextNode]_vars

\* C36: after any sequence of add_edge, remove_edge and remove_node calls on
\* an ImpulseGraph no neighbour branch of _adj is empty, and has_edge(u, v)
\* with no window is True iff an edge between u and v is stored.
C36_NoEmptyBranch ==
    cls = "ImpulseGraph" =>
        /\ \A a \in DOMAIN adj : \A b \in DOMAIN adj[a] : DOMAIN adj[a][b] # {}
        /\ \A u \in Nodes, v \in Nodes :
              ImpulseGraph_has_edge(Obj, u, v, NoneV, NoneV, <<TRUE, FALSE>>).ret
                <=> \E ed \in StoredEdges(Obj) :
                       (ed[1] = u /\ ed[2] = v) \/ (ed[1] = v /\ ed[2] = u)

\* remove_node(n) of the two directed classes, on G
Di_remove_node(G, n) ==
    IF cls = "IntervalDiGraph" THEN IntervalDiGraph_remove_node(G, n, NoneV, NoneV)
    ELSE ImpulseDiGraph_remove_node(G, n, NoneV, NoneV, <<TRUE, FALSE>>)

\* The edges the index of G holds: the tree of an IntervalDiGraph, the
\* timestamp buckets of an ImpulseDiGraph
Di_indexed(G) ==
    IF cls = "IntervalDiGraph" THEN ReachableEdges(G.tree)
    ELSE UNION {{<<e[1], e[2], t>> : e \in G.tree[t]} : t \in DOMAIN G.tree}

\* C37: on an IntervalDiGraph and an ImpulseDiGraph, remove_node(n) for a
\* stored node n returns without error; afterwards n is not a node, _pred,
\* _succ and the index hold no edge with n at an end, and they hold every
\* other edge they held before.
C37_DiRemoveNode ==
    cls \in {"IntervalDiGraph", "ImpulseDiGraph"} =>
        \A n \in DOMAIN node_ :
            LET r    == Di_remove_node(Obj, n)
                away == {ed \in StoredEdges(Obj) : ed[1] = n \/ ed[2] = n}
            IN /\ r.err = "none"
               /\ n \notin DOMAIN r.g.node
               /\ n \notin DOMAIN r.g.pred /\ n \notin DOMAIN r.g.succ
               /\ StoredEdges(r.g) = StoredEdges(Obj) \ away
               /\ Di_indexed(r.g) = Di_indexed(Obj) \ away

\* ------------------------------------------------- two routes to the edges
\* The union over the stored nodes n of edges(u=n, begin, end)
EdgesByNode(G, begin, end) ==
    UNION {SeqRange(IntervalGraph_edges(G, n, NoneV, begin, end).ret) : n \in DOMAIN G.node}

\* C38: for an IntervalGraph and every window (both bounds, one bound, no
\* bound, bounds equal to 0) that edges accepts, the set of edges returned by
\* edges(begin, end) equals the union over the nodes n of the sets returned
\* by edges(u=n, begin, end).
C38_TreeAgreesWithAdjacency ==
    cls = "IntervalGraph" =>
        \A b \in OptTimes, e \in OptTimes :
            LET r == IntervalGraph_edges(Obj, NoneV, NoneV, b, e)
            IN r.err = "none" => SeqRange(r.ret) = EdgesByNode(Obj, b, e)

\* --------------------------------------------------- the order of u and v
\* IntervalGraph.has_edge(u, v) with begin=None and end=None: the first
\* branch of the method, which reads self._adj[u] without testing u.
IntervalGraph_has_edge(G, u, v) ==
    IF u \notin DOMAIN G.adj THEN [err |-> "KeyError", ret |-> FALSE]
    ELSE [err |-> "none",
          ret |-> \E iv \in SeqRange(OKeys(G.adj[u])) : iv[1] = v \/ iv[2] = v]

\* C39: on an IntervalGraph, for stored nodes a and b other than 0,
\* edges(u=a, v=b) and edges(u=b, v=a) return the same set of edges, and
\* has_edge(a, b) without a window is True exactly when that set is not empty.
C39_EdgesIgnoreOrder ==
    cls = "IntervalGraph" =>
        \A a \in DOMAIN Obj.node \ {0}, b \in DOMAIN Obj.node \ {0} :
            LET ab == IntervalGraph_edges(Obj, a, b, NoneV, NoneV)
                ba == IntervalGraph_edges(Obj, b, a, NoneV, NoneV)
                h  == IntervalGraph_has_edge(Obj, a, b)
            IN /\ ab.err = "none" /\ ba.err = "none" /\ h.err = "none"
               /\ SeqRange(ab.ret) = SeqRange(ba.ret)
               /\ h.ret <=> (ab.ret # << >>)

\* ------------------------------------------- ImpulseGraph: removing a self-loop
\* The edges (u, v, t) held by the timestamp index of an impulse graph
Impulse_indexed(G) ==
    UNION {{<<e[1], e[2], t>> : e \in G.tree[t]} : t \in DOMAIN G.tree}

\* C40: on an ImpulseGraph holding a self-loop of u, remove_edge(u, u)
\* returns without error; afterwards the timestamp index and the adjacency
\* map hold no self-loop of u and hold every other edge they held before.
C40_RemoveSelfLoop ==
    cls = "ImpulseGraph" =>
        \A u \in DOMAIN Obj.adj :
            u \in DOMAIN Obj.adj[u] =>
                LET r     == ImpulseGraph_remove_edge(Obj, u, u, NoneV, NoneV, <<TRUE, FALSE>>)
                    loops == {ed \in StoredEdges(Obj) : ed[1] = u /\ ed[2] = u}
                IN /\ r.err = "none"
                   /\ StoredEdges(r.g) = StoredEdges(Obj) \ loops
                   /\ Impulse_indexed(r.g) = Impulse_indexed(Obj) \ loops

====
